---------------------------- MODULE Spec2Model ----------------------------
(***************************************************************************)
(* State-machine model of tridesclous' CatalogueConstructor                *)
(* (src/tridesclous/catalogueconstructor.py).                              *)
(*                                                                         *)
(* An optional value (a Python attribute that may be None, a float that    *)
(* may be NaN) is a sequence of length at most one: <<>> is None / NaN and *)
(* <<x>> is the value x.                                                   *)
(*                                                                         *)
(* A recording is NbSegment segments of conditioned signal cut in chunks   *)
(* of ChunkSize samples.  A waveform is abstracted to the value of the     *)
(* conditioned signal at the peak sample (one channel, the canonical peak  *)
(* offset); the window bounds are kept apart in the extraction params.     *)
(***************************************************************************)
EXTENDS Integers, Sequences, FiniteSets, TLC

VARIABLES
    info,          \* self.info: the persisted configuration record
    signals_noise, \* self.signals_medians / self.signals_mads (present or not)
    processed,     \* per segment: number of conditioned chunks held by dataio
    peaks_buf,     \* the store's 'all_peaks' array while in append state
    all_peaks,     \* self.all_peaks
    clusters,      \* self.clusters
    arrays,        \* the attributes named in _reset_after_peak_arrays
    projector,     \* self.projector (fitted or None)
    centroids,     \* self.centroids (None: no such attribute)
    engines,       \* positions seen by the conditioning and detection engines
    pc,            \* position of the streaming loop of run / re_detect_peak
    catalogue,     \* self.catalogue (None: no such attribute)
    colors,        \* self.colors: the labels that have a colour (None: no such attribute)
    last           \* the operation that produced the current state

vars == <<info, signals_noise, processed, peaks_buf, all_peaks, clusters,
          arrays, projector, centroids, engines, pc, catalogue, colors, last>>

---------------------------------------------------------------------------
(* Optional values *)

None == <<>>

Some(x) == <<x>>

IsSome(o) == o # <<>>

Val(o) == o[1]

---------------------------------------------------------------------------
(* Bounds of the model *)

\* the peak table never holds more than MaxPeaks records
MaxPeaks == 3

\* the clustering algorithm assigns labels 0..MaxLabel
MaxLabel == 1

---------------------------------------------------------------------------
(* Program constants *)

\* literal label written by trash_small_cluster
TRASH_CODE == -1

\* labelcodes.LABEL_UNCLASSIFIED
LABEL_UNCLASSIFIED == -10

\* labelcodes.LABEL_NOISE
LABEL_NOISE == -2

\* factor of the temporary label offset of order_clusters
OFFSET_FACTOR == 10

\* default of the nb_max parameter of extract_some_waveforms
DEFAULT_NB_MAX == 10000

_persistent_metrics ==
    {"spike_waveforms_similarity", "cluster_similarity",
     "cluster_ratio_similarity", "spike_silhouette"}

_reset_after_peak_arrays ==
    {"some_peaks_index", "some_waveforms", "some_features",
     "channel_to_features", "some_noise_index", "some_noise_snippet",
     "some_noise_features"} \cup _persistent_metrics

---------------------------------------------------------------------------
(* The recording (dataio) and the engines *)

\* dataio.nb_segment
NbSegment == 2

\* chunksize, in samples
ChunkSize == 4

Segments == 0 .. (NbSegment - 1)

\* dataio.get_segment_length(seg_num), in samples
SegmentLength(seg) == IF seg = 0 THEN 2 * ChunkSize + 1 ELSE 3 * ChunkSize

\* events of the conditioned signal: <<segment, sample, amplitude in MADs>>
SignalEvents == { <<0, 1, 4>>, <<0, 6, 2>>, <<1, 5, 4>> }

\* value of the conditioned signal at a sample (0 away from any event)
SignalAt(seg, pos) ==
    IF \E e \in SignalEvents : e[1] = seg /\ e[2] = pos
    THEN (CHOOSE e \in SignalEvents : e[1] = seg /\ e[2] = pos)[3]
    ELSE 0

\* relative_threshold values a caller may configure
Thresholds == {2, 4, 6}

RECURSIVE SortedSeq(_)
\* np.unique / np.sort of a finite set of integers: ascending sequence
SortedSeq(S) ==
    IF S = {} THEN <<>>
    ELSE LET m == CHOOSE x \in S : \A y \in S : x <= y
         IN  <<m>> \o SortedSeq(S \ {m})

Range(s) == { s[i] : i \in DOMAIN s }

\* peakdetector.process_data(pos, chunk): the peak samples of chunk number
\* `chunk` of a segment whose first `avail` chunks hold conditioned signal,
\* or None when there is none
DetectChunk(threshold, seg, chunk, avail) ==
    LET found == { e[2] : e \in { x \in SignalEvents :
                        /\ x[1] = seg
                        /\ x[2] \div ChunkSize = chunk
                        /\ chunk < avail
                        /\ x[3] >= threshold } }
    IN  IF found = {} THEN None ELSE Some(SortedSeq(found))

\* np.zeros(chunk_peaks.size, dtype=_dtype_peak) filled for one chunk
ChunkPeaks(chunk_peaks, seg_num) ==
    [ i \in DOMAIN chunk_peaks |->
        [ index |-> chunk_peaks[i], label |-> LABEL_UNCLASSIFIED, segment |-> seg_num ] ]

\* number of chunks run_signalprocessor_loop_one_segment streams
RunLength(duration, seg_num) ==
    LET length == IF duration < SegmentLength(seg_num) THEN duration
                  ELSE SegmentLength(seg_num)
    IN  (length - (length % ChunkSize)) \div ChunkSize

\* number of chunks iter_over_chunk(i_stop=None) yields on a segment
SegmentChunks(seg_num) == SegmentLength(seg_num) \div ChunkSize

---------------------------------------------------------------------------
(* The persistent array store, for 'all_peaks' (iotools.ArrayCollection) *)

\* initialize_array: an empty array in append state; the attribute is unset
\* until finalize_array.  Result: <<peaks_buf, all_peaks>>
initialize_array == << Some(<<>>), None >>

\* append_chunk is possible only on an array in append state
CanAppend(buf) == IsSome(buf)

\* append_chunk
append_chunk(buf, chunk) == Some(Val(buf) \o chunk)

\* finalize_array: the appended records become the attribute.
\* Result: <<peaks_buf, all_peaks>>
finalize_array(buf) == << None, buf >>

---------------------------------------------------------------------------
(* Cluster manager: pure parts *)

\* self.nb_peak
nb_peak(peaks) == IF IsSome(peaks) THEN Len(Val(peaks)) ELSE 0

\* self.cluster_labels, as a sequence in table order
cluster_labels(cl) ==
    IF IsSome(cl) THEN [ i \in DOMAIN Val(cl) |-> Val(cl)[i].cluster_label ]
    ELSE <<>>

\* np.sum(self.all_peaks['label'] == k)
CountLabel(peak_seq, k) == Cardinality({ i \in DOMAIN peak_seq : peak_seq[i].label = k })

\* cell_label of the first row of the previous table carrying label k
PreviousCell(old, k) ==
    LET j == CHOOSE j \in DOMAIN old :
                /\ old[j].cluster_label = k
                /\ \A h \in DOMAIN old : old[h].cluster_label = k => j <= h
    IN  old[j].cell_label

\* like NewClusterRows, but every cell_label restarts from the cluster_label
NewClusterRows_NoIdentity(peak_seq, old) ==
    LET labs == SortedSeq({ peak_seq[i].label : i \in DOMAIN peak_seq })
    IN  [ i \in DOMAIN labs |->
            [ cluster_label |-> labs[i], cell_label |-> labs[i],
              max_on_channel |-> -1, max_peak_amplitude |-> None,
              waveform_rms |-> None, nb_peak |-> CountLabel(peak_seq, labs[i]) ] ]

\* like NewClusterRows, but only non-negative labels get a row
NewClusterRows_OnlyPositive(peak_seq, old) ==
    LET labs == SortedSeq({ l \in { peak_seq[i].label : i \in DOMAIN peak_seq } : l >= 0 })
    IN  [ i \in DOMAIN labs |->
            [ cluster_label |-> labs[i],
              cell_label |-> IF IsSome(old) /\ labs[i] \in Range(cluster_labels(old))
                             THEN PreviousCell(Val(old), labs[i]) ELSE labs[i],
              max_on_channel |-> -1, max_peak_amplitude |-> None,
              waveform_rms |-> None, nb_peak |-> CountLabel(peak_seq, labs[i]) ] ]

\* the table on_new_cluster computes from the peak table and the previous table
NewClusterRows(peak_seq, old) ==
    LET labs == SortedSeq({ peak_seq[i].label : i \in DOMAIN peak_seq })
    IN  [ i \in DOMAIN labs |->
            [ cluster_label |-> labs[i],
              cell_label |-> IF IsSome(old) /\ labs[i] \in Range(cluster_labels(old))
                             THEN PreviousCell(Val(old), labs[i]) ELSE labs[i],
              max_on_channel |-> -1, max_peak_amplitude |-> None,
              waveform_rms |-> None, nb_peak |-> CountLabel(peak_seq, labs[i]) ] ]

\* on_new_cluster: the value of self.clusters after the call
on_new_cluster(peaks, old) ==
    IF ~ IsSome(peaks) THEN old
    ELSE LET rows == NewClusterRows(Val(peaks), old)
         IN  IF Len(rows) > 0 THEN Some(rows) ELSE old

\* _reset_waveform_and_features: every array downstream of detection is unset
_reset_waveform_and_features(arr) == [ name \in DOMAIN arr |-> None ]

---------------------------------------------------------------------------
(* Waveform sampler and centroids: pure parts *)

\* the selection, with mode 'all' capped at nb_max like mode 'rand'
SelectionChoices_AllCapped(index, mode, nb_max, nb) ==
    IF IsSome(index) THEN { Val(index) }
    ELSE IF (mode = "rand" \/ mode = "all") /\ nb > nb_max
    THEN [ 1 .. nb_max -> 0 .. (nb - 1) ]
    ELSE IF mode = "rand" \/ mode = "all" THEN { [ i \in 1 .. nb |-> i - 1 ] }
    ELSE {}

\* the selection, with mode 'rand' taking every peak whatever nb_max
SelectionChoices_RandTakesAll(index, mode, nb_max, nb) ==
    IF IsSome(index) THEN { Val(index) }
    ELSE IF mode = "rand" \/ mode = "all" THEN { [ i \in 1 .. nb |-> i - 1 ] }
    ELSE {}

\* the index array extract_some_waveforms starts from: the explicit index, or
\* what the mode selects (np.random.choice draws nb_max values, with
\* replacement); the empty set when the mode is unknown
SelectionChoices(index, mode, nb_max, nb) ==
    IF IsSome(index) THEN { Val(index) }
    ELSE IF mode = "rand" /\ nb > nb_max THEN [ 1 .. nb_max -> 0 .. (nb - 1) ]
    ELSE IF mode = "rand" \/ mode = "all" THEN { [ i \in 1 .. nb |-> i - 1 ] }
    ELSE {}

RECURSIVE SegmentRows(_, _, _, _)
\* the windows read for one segment: one per selected peak of the segment, in
\* peak-table order
SegmentRows(peak_seq, selected, seg_num, i) ==
    IF i > Len(peak_seq) THEN <<>>
    ELSE (IF (i - 1) \in selected /\ peak_seq[i].segment = seg_num
          THEN << [ segment |-> seg_num, index |-> peak_seq[i].index ] >>
          ELSE <<>>) \o SegmentRows(peak_seq, selected, seg_num, i + 1)

RECURSIVE WaveformRows(_, _, _)
\* the rows of some_waveforms: segment after segment of np.unique(segment)
WaveformRows(peak_seq, selected, seg_nums) ==
    IF seg_nums = <<>> THEN <<>>
    ELSE SegmentRows(peak_seq, selected, Head(seg_nums), 1)
         \o WaveformRows(peak_seq, selected, Tail(seg_nums))

RECURSIVE SortInts(_)
\* np.sort of a sequence of integers (repeats kept)
SortInts(s) ==
    IF s = <<>> THEN <<>>
    ELSE LET i == CHOOSE i \in DOMAIN s : \A j \in DOMAIN s : s[i] <= s[j]
         IN  <<s[i]>> \o SortInts([ j \in 1 .. (Len(s) - 1) |-> IF j < i THEN s[j] ELSE s[j + 1] ])

\* np.median of a sequence of integers; NaN on an empty one
Median(s) ==
    LET t == SortInts(s)
        n == Len(s)
    IN  IF n = 0 THEN None
        ELSE IF n % 2 = 1 THEN Some(t[(n + 1) \div 2])
        ELSE Some((t[n \div 2] + t[n \div 2 + 1]) \div 2)

Abs(x) == IF x < 0 THEN -x ELSE x

\* some_waveforms[all_peaks['label'][some_peaks_index] == k], reduced to the
\* value of each window at the peak sample
ClusterWaveforms(peak_seq, some_index, rows, k) ==
    LET keep == { i \in DOMAIN rows : peak_seq[some_index[i] + 1].label = k }
        idx == SortedSeq(keep)
    IN  [ j \in DOMAIN idx |-> SignalAt(rows[idx[j]].segment, rows[idx[j]].index) ]

\* whether the label lookup of compute_centroid can be evaluated
CanMask(peaks, some_index, rows) ==
    /\ IsSome(peaks)
    /\ Len(some_index) = Len(rows)
    /\ \A i \in DOMAIN some_index : some_index[i] < Len(Val(peaks))

RECURSIVE CentroidLoop(_, _, _, _, _)
\* the loop of compute_centroid over label_changed, from position i, on the
\* centroid cache cen (None: no such attribute) and the table rows cl.
\* Result: the cache, the rows, and whether the loop ran to its end
CentroidLoop(label_changed, i, cen, cl, ctx) ==
    IF i > Len(label_changed) THEN [ centroids |-> cen, rows |-> cl, ok |-> TRUE ]
    ELSE LET k == label_changed[i]
         IN  IF k < 0 THEN CentroidLoop(label_changed, i + 1, cen, cl, ctx)
             ELSE IF ~ (\E r \in DOMAIN cl : cl[r].cluster_label = k)
             THEN \* self.centroids.pop(k)
                  IF IsSome(cen) /\ k \in DOMAIN Val(cen)
                  THEN CentroidLoop(label_changed, i + 1,
                            Some([ h \in (DOMAIN Val(cen)) \ {k} |-> Val(cen)[h] ]), cl, ctx)
                  ELSE [ centroids |-> cen, rows |-> cl, ok |-> FALSE ]
             ELSE IF ~ CanMask(ctx.peaks, ctx.some_index, ctx.rows) \/ ~ IsSome(cen)
             THEN [ centroids |-> cen, rows |-> cl, ok |-> FALSE ]
             ELSE LET median == Median(ClusterWaveforms(Val(ctx.peaks), ctx.some_index, ctx.rows, k))
                      ind == CHOOSE r \in DOMAIN cl :
                                /\ cl[r].cluster_label = k
                                /\ \A h \in DOMAIN cl : cl[h].cluster_label = k => r <= h
                      cen2 == Some([ h \in (DOMAIN Val(cen)) \cup {k} |->
                                        IF h = k THEN median ELSE Val(cen)[h] ])
                      cl2 == [ cl EXCEPT ![ind].max_on_channel = 0,
                                         ![ind].max_peak_amplitude = median,
                                         ![ind].waveform_rms =
                                            IF IsSome(median) THEN Some(Abs(Val(median))) ELSE None ]
                  IN  CentroidLoop(label_changed, i + 1, cen2, cl2, ctx)

\* compute_centroid(label_changed) as a function of the state it reads.
\* Result: the cache, self.clusters, and whether the call returned normally
ComputeCentroid(label_changed, cen, cl, peaks, arr, inf) ==
    LET cen1 == IF IsSome(label_changed) THEN cen ELSE Some(<<>>)
        labels == IF IsSome(label_changed) THEN Val(label_changed) ELSE cluster_labels(cl)
    IN  IF ~ IsSome(arr["some_waveforms"])
        THEN [ centroids |-> cen1, clusters |-> cl, ok |-> TRUE ]
        ELSE IF ~ IsSome(inf.params_waveformextractor)
        THEN [ centroids |-> cen1, clusters |-> cl, ok |-> FALSE ]
        ELSE LET ctx == [ peaks |-> peaks,
                          some_index |-> Val(arr["some_peaks_index"]),
                          rows |-> Val(arr["some_waveforms"]).rows ]
                 r == CentroidLoop(labels, 1, cen1, IF IsSome(cl) THEN Val(cl) ELSE <<>>, ctx)
             IN  [ centroids |-> r.centroids,
                   clusters |-> IF IsSome(cl) THEN Some(r.rows) ELSE None,
                   ok |-> r.ok ]

---------------------------------------------------------------------------
(* Relabelling: pure parts *)

\* the label column of the peak table
Labels(peak_seq) == [ i \in DOMAIN peak_seq |-> peak_seq[i].label ]

\* the peak table with its label column replaced
WithLabels(peak_seq, labs) == [ i \in DOMAIN peak_seq |-> [ peak_seq[i] EXCEPT !.label = labs[i] ] ]

RECURSIVE TrashLoop_Strict(_, _, _, _)
\* like TrashLoop, sparing the clusters of exactly n peaks
TrashLoop_Strict(labs, table_labels, i, n) ==
    IF i > Len(table_labels) THEN labs
    ELSE LET k == table_labels[i]
             mask == { j \in DOMAIN labs : labs[j] = k }
         IN  TrashLoop_Strict(IF Cardinality(mask) < n
                              THEN [ j \in DOMAIN labs |-> IF j \in mask THEN TRASH_CODE ELSE labs[j] ]
                              ELSE labs,
                              table_labels, i + 1, n)

RECURSIVE TrashLoop(_, _, _, _)
\* the loop of trash_small_cluster over self.cluster_labels, from position i
TrashLoop(labs, table_labels, i, n) ==
    IF i > Len(table_labels) THEN labs
    ELSE LET k == table_labels[i]
             mask == { j \in DOMAIN labs : labs[j] = k }
         IN  TrashLoop(IF Cardinality(mask) <= n
                       THEN [ j \in DOMAIN labs |-> IF j \in mask THEN TRASH_CODE ELSE labs[j] ]
                       ELSE labs,
                       table_labels, i + 1, n)

\* clusters[clusters['cluster_label'] < 0]
NegRows(rows) ==
    LET idx == SortedSeq({ i \in DOMAIN rows : rows[i].cluster_label < 0 })
    IN  [ j \in DOMAIN idx |-> rows[idx[j]] ]

\* clusters[clusters['cluster_label'] >= 0]
PosRows(rows) ==
    LET idx == SortedSeq({ i \in DOMAIN rows : rows[i].cluster_label >= 0 })
    IN  [ j \in DOMAIN idx |-> rows[idx[j]] ]

\* the sort key of order_clusters for one row (NaN when the metric is unset)
OrderKey(row, by) ==
    IF by = "waveforms_rms" THEN row.waveform_rms
    ELSE IF IsSome(row.max_peak_amplitude) THEN Some(Abs(Val(row.max_peak_amplitude)))
    ELSE None

\* the order in which np.sort leaves two keys: NaN goes last
KeyLeq(a, b) == ~ IsSome(b) \/ (IsSome(a) /\ Val(a) <= Val(b))

\* np.argsort(keys)[::-1]: every descending order a sort may return (the
\* default sort is not stable), as row positions
OrderChoices(pos_rows, by) ==
    LET n == Len(pos_rows)
        asc == { p \in [ 1 .. n -> 1 .. n ] :
                    /\ \A i, j \in 1 .. n : i # j => p[i] # p[j]
                    /\ \A i, j \in 1 .. n :
                         i < j => KeyLeq(OrderKey(pos_rows[p[i]], by), OrderKey(pos_rows[p[j]], by)) }
    IN  { [ i \in 1 .. n |-> p[n + 1 - i] ] : p \in asc }

\* max(sorted_labels)
MaxOf(s) == CHOOSE x \in Range(s) : \A y \in Range(s) : y <= x

\* like LabelOffset, without any offset
LabelOffset_None(sorted_labels) == 0

\* N: the temporary offset of the two-phase remap
LabelOffset(sorted_labels) == MaxOf(sorted_labels) * OFFSET_FACTOR

RECURSIVE RemapLoop(_, _, _, _)
\* the label column after each iteration of the loop that resolves the
\* offset labels, from the iteration that assigns label new - 1
RemapLoop(labs, sorted_labels, N, new) ==
    IF new > Len(sorted_labels) THEN <<>>
    ELSE LET nxt == [ i \in DOMAIN labs |->
                        IF labs[i] = sorted_labels[new] + N THEN new - 1 ELSE labs[i] ]
         IN  <<nxt>> \o RemapLoop(nxt, sorted_labels, N, new + 1)

\* like RemapTrace, offsetting the reserved labels too
RemapTrace_ShiftAll(labs, sorted_labels, N) ==
    LET shifted == [ i \in DOMAIN labs |-> labs[i] + N ]
    IN  <<shifted>> \o RemapLoop(shifted, sorted_labels, N, 1)

\* every value the label column takes during the remap: after the offset,
\* then after each iteration
RemapTrace(labs, sorted_labels, N) ==
    LET shifted == [ i \in DOMAIN labs |-> IF labs[i] >= 0 THEN labs[i] + N ELSE labs[i] ]
    IN  <<shifted>> \o RemapLoop(shifted, sorted_labels, N, 1)

\* like CellLoop, giving every row a cell label of its own
CellLoop_PerRow(cells, i) == [ j \in DOMAIN cells |-> j - 1 ]

RECURSIVE CellLoop(_, _)
\* the loop that resolves the offset cell labels, from row i (1-based)
CellLoop(cells, i) ==
    IF i > Len(cells) THEN cells
    ELSE LET k == cells[i]
             inds == { j \in DOMAIN cells : cells[j] = k }
         IN  CellLoop(IF \A j \in inds : i <= j
                      THEN [ j \in DOMAIN cells |-> IF j \in inds THEN i - 1 ELSE cells[j] ]
                      ELSE cells,
                      i + 1)

\* the table order_clusters writes back: negative rows, then the reordered
\* non-negative rows with dense labels and resolved cell labels
ReorderedTable(rows, order, N) ==
    LET neg == NegRows(rows)
        pos == PosRows(rows)
        sorted == [ i \in DOMAIN order |-> pos[order[i]] ]
        cells == CellLoop([ i \in DOMAIN sorted |-> sorted[i].cell_label + N ], 1)
    IN  neg \o [ i \in DOMAIN sorted |->
                    [ sorted[i] EXCEPT !.cluster_label = i - 1, !.cell_label = cells[i] ] ]

---------------------------------------------------------------------------
(* Construction *)

\* the record of an operation: its name, its arguments (for a detection, with
\* the peak table it started from and the downstream arrays that were set
\* when it finalized), and the values the label column of the peak table went
\* through (first the one it started from)
Did(op) == [ op |-> op, args |-> <<>>, trace |-> <<>> ]

Idle == [ op |-> "idle", seg |-> 0, chunk |-> 0, duration |-> 0, detect_peak |-> FALSE ]

\* the arrays downstream of detection that are set
PresentArrays(arr) == { name \in DOMAIN arr : IsSome(arr[name]) }

\* CatalogueConstructor.__init__ on a fresh directory
Init ==
    /\ info = [ chunksize |-> None, params_signalpreprocessor |-> None,
                params_peakdetector |-> None, processed_length |-> None,
                params_waveformextractor |-> None ]
    /\ signals_noise = None
    /\ processed = [ seg \in Segments |-> 0 ]
    /\ peaks_buf = None
    /\ all_peaks = None
    /\ clusters = None
    /\ arrays = [ name \in _reset_after_peak_arrays |-> None ]
    /\ projector = None
    /\ centroids = None
    /\ engines = [ signalpreprocessor |-> 0, peakdetector |-> 0 ]
    /\ pc = Idle
    /\ catalogue = None
    /\ colors = None
    /\ last = Did("init")

---------------------------------------------------------------------------
(* Pipeline orchestrator *)

\* set_preprocessor_params, removing what was already computed downstream of
\* the peak detection
set_preprocessor_params_ClearsDownstream(lostfront, relative_threshold) ==
    /\ pc.op = "idle"
    /\ peaks_buf' = initialize_array[1]
    /\ all_peaks' = initialize_array[2]
    /\ processed' = [ seg \in Segments |-> 0 ]
    /\ engines' = [ signalpreprocessor |-> 0, peakdetector |-> 0 ]
    /\ info' = [ info EXCEPT !.chunksize = Some(ChunkSize),
                             !.params_signalpreprocessor = Some(lostfront),
                             !.params_peakdetector = Some(relative_threshold) ]
    /\ arrays' = _reset_waveform_and_features(arrays)
    /\ last' = [ op |-> "set_preprocessor_params",
                 args |-> << all_peaks, PresentArrays(arrays) >>, trace |-> <<>> ]
    /\ UNCHANGED <<signals_noise, clusters, projector, centroids, pc>>
    /\ UNCHANGED <<catalogue, colors>>

\* set_preprocessor_params
set_preprocessor_params(lostfront, relative_threshold) ==
    /\ pc.op = "idle"
    /\ peaks_buf' = initialize_array[1]
    /\ all_peaks' = initialize_array[2]
    /\ processed' = [ seg \in Segments |-> 0 ]
    /\ engines' = [ signalpreprocessor |-> 0, peakdetector |-> 0 ]
    /\ info' = [ info EXCEPT !.chunksize = Some(ChunkSize),
                             !.params_signalpreprocessor = Some(lostfront),
                             !.params_peakdetector = Some(relative_threshold) ]
    /\ last' = [ op |-> "set_preprocessor_params",
                 args |-> << all_peaks, PresentArrays(arrays) >>, trace |-> <<>> ]
    /\ UNCHANGED <<signals_noise, clusters, arrays, projector, centroids, pc>>
    /\ UNCHANGED <<catalogue, colors>>

\* estimate_signals_noise(seg_num, duration), duration in samples
estimate_signals_noise(seg_num, duration) ==
    /\ pc.op = "idle"
    /\ IsSome(info.chunksize)
    /\ LET length == duration - (duration % ChunkSize)
       IN  /\ length - Val(info.params_signalpreprocessor) * ChunkSize > 0
           /\ IF length < SegmentLength(seg_num)
              THEN /\ signals_noise' = Some(seg_num)
                   /\ engines' = [ engines EXCEPT !.signalpreprocessor = 0 ]
                   /\ last' = [ op |-> "estimate_signals_noise",
                                args |-> << seg_num, duration >>, trace |-> <<>> ]
              ELSE \* assert length < get_segment_length(seg_num), 'duration exeed size'
                   /\ last' = [ op |-> "estimate_signals_noise_failed",
                                args |-> << seg_num, duration >>, trace |-> <<>> ]
                   /\ UNCHANGED <<signals_noise, engines>>
    /\ UNCHANGED <<info, processed, peaks_buf, all_peaks, clusters, arrays,
                   projector, centroids, pc>>
    /\ UNCHANGED <<catalogue, colors>>

\* the prelude of a segment that leaves the engines in the state the previous
\* chunk left them
SegmentPrelude_KeepEngines(seg_num, duration) ==
    /\ info' = [ info EXCEPT !.processed_length = Some(RunLength(duration, seg_num) * ChunkSize) ]
    /\ engines' = engines

\* run_signalprocessor_loop_one_segment, up to its loop: the processed length
\* is recorded and both engines are reset
SegmentPrelude(seg_num, duration) ==
    /\ info' = [ info EXCEPT !.processed_length = Some(RunLength(duration, seg_num) * ChunkSize) ]
    /\ engines' = [ signalpreprocessor |-> 0, peakdetector |-> 0 ]

\* run_signalprocessor(duration, detect_peak): entry and first segment's setup
run_signalprocessor(duration, detect_peak) ==
    /\ pc.op = "idle"
    /\ IsSome(info.chunksize)
    /\ IF IsSome(signals_noise)
       THEN /\ SegmentPrelude(0, duration)
            /\ pc' = [ op |-> "run", seg |-> 0, chunk |-> 0,
                       duration |-> duration, detect_peak |-> detect_peak ]
            /\ last' = Did("run_signalprocessor_loop")
       ELSE \* normalisation without medians/mads fails, after the info flush
            /\ info' = [ info EXCEPT !.processed_length = Some(RunLength(duration, 0) * ChunkSize) ]
            /\ UNCHANGED <<engines, pc>>
            /\ last' = Did("run_signalprocessor_failed")
    /\ UNCHANGED <<signals_noise, processed, peaks_buf, all_peaks, clusters,
                   arrays, projector, centroids>>
    /\ UNCHANGED <<catalogue, colors>>

\* the loop of run_signalprocessor moves on after a chunk
RunAdvance ==
    IF pc.chunk + 1 < RunLength(pc.duration, pc.seg)
    THEN /\ pc' = [ pc EXCEPT !.chunk = pc.chunk + 1 ]
         /\ info' = info
         /\ engines' = [ signalpreprocessor |-> engines.signalpreprocessor + 1,
                         peakdetector |-> IF pc.detect_peak
                                             /\ pc.chunk >= Val(info.params_signalpreprocessor)
                                          THEN engines.peakdetector + 1
                                          ELSE engines.peakdetector ]
    ELSE IF pc.seg + 1 < NbSegment
    THEN /\ pc' = [ pc EXCEPT !.seg = pc.seg + 1, !.chunk = 0 ]
         /\ SegmentPrelude(pc.seg + 1, pc.duration)
    ELSE /\ pc' = [ pc EXCEPT !.op = "run_finalize" ]
         /\ info' = info
         /\ engines' = [ signalpreprocessor |-> engines.signalpreprocessor + 1,
                         peakdetector |-> IF pc.detect_peak
                                             /\ pc.chunk >= Val(info.params_signalpreprocessor)
                                          THEN engines.peakdetector + 1
                                          ELSE engines.peakdetector ]

\* signalprocessor_one_chunk on the next chunk of the segment
signalprocessor_one_chunk ==
    /\ pc.op = "run"
    /\ LET lostfront == Val(info.params_signalpreprocessor)
           cchunk == pc.chunk - lostfront
           found == DetectChunk(Val(info.params_peakdetector), pc.seg, cchunk, cchunk + 1)
       IN  IF cchunk < 0
           THEN \* preprocessed_chunk is None
                /\ RunAdvance
                /\ last' = Did("run_signalprocessor_loop")
                /\ UNCHANGED <<processed, peaks_buf>>
           ELSE IF ~ pc.detect_peak \/ ~ IsSome(found)
           THEN /\ processed' = [ processed EXCEPT ![pc.seg] =
                                    IF @ > cchunk + 1 THEN @ ELSE cchunk + 1 ]
                /\ RunAdvance
                /\ last' = Did("run_signalprocessor_loop")
                /\ UNCHANGED peaks_buf
           ELSE IF CanAppend(peaks_buf)
           THEN /\ Len(Val(peaks_buf)) + Len(Val(found)) <= MaxPeaks
                /\ processed' = [ processed EXCEPT ![pc.seg] =
                                    IF @ > cchunk + 1 THEN @ ELSE cchunk + 1 ]
                /\ peaks_buf' = append_chunk(peaks_buf, ChunkPeaks(Val(found), pc.seg))
                /\ RunAdvance
                /\ last' = Did("run_signalprocessor_loop")
           ELSE \* append_chunk refuses an array that is not in append state
                /\ processed' = [ processed EXCEPT ![pc.seg] =
                                    IF @ > cchunk + 1 THEN @ ELSE cchunk + 1 ]
                /\ pc' = Idle
                /\ last' = Did("run_signalprocessor_failed")
                /\ UNCHANGED <<info, engines, peaks_buf>>
    /\ UNCHANGED <<signals_noise, all_peaks, clusters, arrays, projector, centroids>>
    /\ UNCHANGED <<catalogue, colors>>

\* finalize_signalprocessor_loop
finalize_signalprocessor_loop ==
    /\ pc.op = "run_finalize"
    /\ pc' = Idle
    /\ IF CanAppend(peaks_buf)
       THEN /\ peaks_buf' = finalize_array(peaks_buf)[1]
            /\ all_peaks' = finalize_array(peaks_buf)[2]
            /\ arrays' = _reset_waveform_and_features(arrays)
            /\ clusters' = on_new_cluster(all_peaks', clusters)
            /\ last' = [ op |-> "run_signalprocessor",
                         args |-> << pc.duration, PresentArrays(arrays) >>, trace |-> <<>> ]
       ELSE \* finalize_array refuses an array that is not in append state
            /\ last' = Did("run_signalprocessor_failed")
            /\ UNCHANGED <<peaks_buf, all_peaks, arrays, clusters>>
    /\ UNCHANGED <<info, signals_noise, processed, projector, centroids, engines>>
    /\ UNCHANGED <<catalogue, colors>>

\* like re_detect_peak, but the peak array is not initialized: the new peaks
\* are appended to the ones the table holds
re_detect_peak_KeepOld(relative_threshold) ==
    /\ pc.op = "idle"
    /\ IsSome(info.chunksize)
    /\ info' = [ info EXCEPT !.params_peakdetector = Some(relative_threshold) ]
    /\ peaks_buf' = IF IsSome(all_peaks) THEN all_peaks ELSE Some(<<>>)
    /\ all_peaks' = None
    /\ engines' = [ engines EXCEPT !.peakdetector = 0 ]
    /\ pc' = [ op |-> "re_detect_peak", seg |-> 0, chunk |-> 0,
               duration |-> 0, detect_peak |-> TRUE ]
    /\ last' = [ op |-> "re_detect_peak_loop",
                 args |-> << relative_threshold, all_peaks >>, trace |-> <<>> ]
    /\ UNCHANGED <<signals_noise, processed, clusters, arrays, projector, centroids>>
    /\ UNCHANGED <<catalogue, colors>>

\* re_detect_peak(relative_threshold): entry, up to the loop over segments
re_detect_peak(relative_threshold) ==
    /\ pc.op = "idle"
    /\ IsSome(info.chunksize)
    /\ info' = [ info EXCEPT !.params_peakdetector = Some(relative_threshold) ]
    /\ peaks_buf' = initialize_array[1]
    /\ all_peaks' = initialize_array[2]
    /\ engines' = [ engines EXCEPT !.peakdetector = 0 ]
    /\ pc' = [ op |-> "re_detect_peak", seg |-> 0, chunk |-> 0,
               duration |-> 0, detect_peak |-> TRUE ]
    /\ last' = [ op |-> "re_detect_peak_loop",
                 args |-> << relative_threshold, all_peaks >>, trace |-> <<>> ]
    /\ UNCHANGED <<signals_noise, processed, clusters, arrays, projector, centroids>>
    /\ UNCHANGED <<catalogue, colors>>

\* one iteration of the chunk loop of re_detect_peak
re_detect_peak_one_chunk ==
    /\ pc.op = "re_detect_peak"
    /\ LET found == DetectChunk(Val(info.params_peakdetector), pc.seg, pc.chunk,
                                processed[pc.seg])
       IN  IF IsSome(found)
           THEN /\ Len(Val(peaks_buf)) + Len(Val(found)) <= MaxPeaks
                /\ peaks_buf' = append_chunk(peaks_buf, ChunkPeaks(Val(found), pc.seg))
           ELSE peaks_buf' = peaks_buf
    /\ IF pc.chunk + 1 < SegmentChunks(pc.seg)
       THEN /\ pc' = [ pc EXCEPT !.chunk = pc.chunk + 1 ]
            /\ engines' = [ engines EXCEPT !.peakdetector = @ + 1 ]
       ELSE IF pc.seg + 1 < NbSegment
       THEN /\ pc' = [ pc EXCEPT !.seg = pc.seg + 1, !.chunk = 0 ]
            /\ engines' = [ engines EXCEPT !.peakdetector = 0 ]
       ELSE /\ pc' = [ pc EXCEPT !.op = "re_detect_peak_finalize" ]
            /\ engines' = [ engines EXCEPT !.peakdetector = @ + 1 ]
    /\ UNCHANGED <<info, signals_noise, processed, all_peaks, clusters, arrays,
                   projector, centroids, last>>
    /\ UNCHANGED <<catalogue, colors>>

\* the end of re_detect_peak: finalize, reset, rebuild
re_detect_peak_finalize ==
    /\ pc.op = "re_detect_peak_finalize"
    /\ pc' = Idle
    /\ peaks_buf' = finalize_array(peaks_buf)[1]
    /\ all_peaks' = finalize_array(peaks_buf)[2]
    /\ arrays' = _reset_waveform_and_features(arrays)
    /\ clusters' = on_new_cluster(all_peaks', clusters)
    /\ last' = [ op |-> "re_detect_peak",
                 args |-> last.args \o << PresentArrays(arrays) >>, trace |-> <<>> ]
    /\ UNCHANGED <<info, signals_noise, processed, projector, centroids, engines>>
    /\ UNCHANGED <<catalogue, colors>>

\* an exception (KeyboardInterrupt) ends the streaming loop between two chunks
Interrupt ==
    /\ pc.op \in {"run", "re_detect_peak"}
    /\ pc' = Idle
    /\ last' = Did("interrupted")
    /\ UNCHANGED <<info, signals_noise, processed, peaks_buf, all_peaks, clusters,
                   arrays, projector, centroids, engines>>
    /\ UNCHANGED <<catalogue, colors>>

---------------------------------------------------------------------------
(* Waveform sampler *)

\* np.unique(some_peaks_index), with the repeats kept
UniqueIndex_KeepRepeats(raw) == SortInts(raw)

\* np.unique(some_peaks_index)
UniqueIndex(raw) == SortedSeq(Range(raw))

\* apply_projection on the arrays arr with the projector proj.
\* Result: the arrays, and whether the call returned normally
ApplyProjection(arr, proj) ==
    IF ~ IsSome(proj)
    THEN \* assert self.projector is not None
         [ arrays |-> arr, ok |-> FALSE ]
    ELSE IF ~ IsSome(arr["some_waveforms"]) \/ Val(arr["some_waveforms"]).width # Val(proj)
    THEN \* the projector cannot transform the sample
         [ arrays |-> arr, ok |-> FALSE ]
    ELSE \* the features are computed, then add_array reads the name
         \* some_features, which is bound nowhere: NameError
         [ arrays |-> arr, ok |-> FALSE ]

\* the end of extract_some_waveforms: the fitted projector is re-applied, and
\* the features are unset when there is none or when it fails
Reproject(arr, proj) ==
    IF IsSome(proj) /\ ApplyProjection(arr, proj).ok
    THEN ApplyProjection(arr, proj).arrays
    ELSE [ arr EXCEPT !["some_features"] = None ]

\* the modes extract_some_waveforms accepts
SelectionModes == {"rand", "all"}

\* what Python raises for `raise(NotImplementedError, 'unknown mode')`: a tuple
\* is not an exception, so a TypeError with the interpreter's own message
\* ('exceptions must derive from BaseException'); names: the option values
\* the message mentions
RaisedTuple == [ type |-> "TypeError", names |-> {} ]

\* what Python raises for `raise(NotImplementedError)`: no message
RaisedBare == [ type |-> "NotImplementedError", names |-> {} ]

\* extract_some_waveforms(n_left, n_right, index, mode, nb_max, align_waveform);
\* bounds is None or <<n_left, n_right>>, raw is the index array the selection
\* policy produced
extract_some_waveforms(bounds, index, mode, nb_max, align_waveform, raw) ==
    /\ pc.op = "idle"
    /\ IsSome(bounds) \/ IsSome(info.params_waveformextractor)
    /\ IsSome(info.params_peakdetector)
    /\ IF ~ IsSome(index) /\ mode \notin SelectionModes
       THEN raw = <<>>
       ELSE /\ raw \in SelectionChoices(index, mode, nb_max, nb_peak(all_peaks))
            /\ \A i \in DOMAIN raw : raw[i] < nb_peak(all_peaks)
    /\ LET n_left == IF IsSome(bounds) THEN Val(bounds)[1]
                     ELSE Val(info.params_waveformextractor).n_left
           n_right == IF IsSome(bounds) THEN Val(bounds)[2]
                      ELSE Val(info.params_waveformextractor).n_right
           some_peaks_index == UniqueIndex(raw)
           peak_seq == IF IsSome(all_peaks) THEN Val(all_peaks) ELSE <<>>
           seg_nums == SortedSeq({ peak_seq[i].segment : i \in DOMAIN peak_seq })
           rows == WaveformRows(peak_seq, Range(raw), seg_nums)
       IN  IF ~ IsSome(index) /\ mode \notin SelectionModes
           THEN \* raise(NotImplementedError, 'unknown mode') raises a tuple
                /\ UNCHANGED <<arrays, info>>
                /\ last' = [ op |-> "extract_some_waveforms_failed",
                             args |-> << mode, RaisedTuple >>, trace |-> <<>> ]
           ELSE IF IsSome(all_peaks)
           THEN /\ arrays' = Reproject([ arrays EXCEPT
                        !["some_peaks_index"] = Some(some_peaks_index),
                        !["some_waveforms"] = Some([ width |-> n_right - n_left, rows |-> rows ]) ],
                        projector)
                /\ info' = [ info EXCEPT !.params_waveformextractor =
                                Some([ n_left |-> n_left, n_right |-> n_right,
                                       nb_max |-> nb_max, align_waveform |-> align_waveform ]) ]
                /\ last' = [ op |-> "extract_some_waveforms",
                             args |-> << raw, index, mode, nb_max, bounds >>, trace |-> <<>> ]
           ELSE \* both arrays are replaced, then the peak table is read
                /\ arrays' = [ arrays EXCEPT
                        !["some_peaks_index"] = Some(<<>>),
                        !["some_waveforms"] = Some([ width |-> n_right - n_left, rows |-> <<>> ]) ]
                /\ info' = info
                /\ last' = Did("extract_some_waveforms_failed")
    /\ UNCHANGED <<signals_noise, processed, peaks_buf, all_peaks, clusters,
                   projector, centroids, engines, pc>>
    /\ UNCHANGED <<catalogue, colors>>

\* apply_projection
apply_projection ==
    /\ pc.op = "idle"
    /\ arrays' = ApplyProjection(arrays, projector).arrays
    /\ last' = IF ApplyProjection(arrays, projector).ok
               THEN Did("apply_projection") ELSE Did("apply_projection_failed")
    /\ UNCHANGED <<info, signals_noise, processed, peaks_buf, all_peaks, clusters,
                   projector, centroids, engines, pc>>
    /\ UNCHANGED <<catalogue, colors>>

\* np.where(np.diff(above.astype(int)) == 1): the offsets i (from 0) with
\* above[i] false and above[i + 1] true
UpEdges(above) == { i \in 0 .. (Len(above) - 2) : ~ above[i + 1] /\ above[i + 2] }

\* np.where(np.diff(above.astype(int)) == -1)
DownEdges(above) == { i \in 0 .. (Len(above) - 2) : above[i + 1] /\ ~ above[i + 2] }

\* min of a non-empty set of integers
MinOf(S) == CHOOSE x \in S : \A y \in S : x <= y

\* max of a non-empty set of integers
MaxOfSet(S) == CHOOSE x \in S : \A y \in S : x >= y

\* np.argmax(down - up): the first position of the largest difference
ArgMaxRun(up, down) ==
    CHOOSE b \in DOMAIN up :
        /\ \A i \in DOMAIN up : down[i] - up[i] <= down[b] - up[b]
        /\ \A i \in DOMAIN up : i < b => down[i] - up[i] < down[b] - up[b]

\* the bounds find_good_limits derives from the flagged offsets `above` of a
\* window that starts at old_n_left, before they are clamped.  Result: found
\* is None or <<n_left, n_right>>; ok is FALSE when the search raises
LimitsOfRuns(above, old_n_left) ==
    LET up0 == UpEdges(above)
        down0 == DownEdges(above)
    IN  IF up0 = {} \/ down0 = {}
        THEN [ found |-> None, ok |-> TRUE ]
        ELSE LET up1 == { u \in up0 : u < MaxOfSet(down0) }
             IN  IF up1 = {}
                 THEN \* min(up) of an empty array raises
                      [ found |-> None, ok |-> FALSE ]
                 ELSE LET down1 == { d \in down0 : d > MinOf(up1) }
                          up == SortedSeq(up1)
                          down == SortedSeq(down1)
                      IN  IF down1 = {}
                          THEN [ found |-> None, ok |-> TRUE ]
                          ELSE IF Len(up) # Len(down)
                          THEN \* down - up cannot be broadcast
                               [ found |-> None, ok |-> FALSE ]
                          ELSE LET best == ArgMaxRun(up, down)
                               IN  [ found |-> Some(<< old_n_left + up[best],
                                                       old_n_left + down[best] + 1 >>),
                                     ok |-> TRUE ]

\* the limits as found
ClampLimits_None(found, min_left, max_right) == found

\* n_left = min(n_left, min_left); n_right = max(n_right, max_right)
ClampLimits(found, min_left, max_right) ==
    << IF found[1] < min_left THEN found[1] ELSE min_left,
       IF found[2] > max_right THEN found[2] ELSE max_right >>

\* find_good_limits(min_left, max_right, extract=True); above[i] tells whether
\* the spread of the sample at the i-th offset of the window is above the
\* noise on enough channels
find_good_limits(above, min_left, max_right) ==
    /\ pc.op = "idle"
    /\ IsSome(info.params_waveformextractor)
    /\ IsSome(info.params_peakdetector)
    /\ IsSome(arrays["some_waveforms"])
    /\ IsSome(arrays["some_peaks_index"])
    /\ Len(above) = Val(arrays["some_waveforms"]).width
    /\ (\E i \in DOMAIN above : above[i]) => Len(Val(arrays["some_waveforms"]).rows) > 0
    /\ LET r == LimitsOfRuns(above, Val(info.params_waveformextractor).n_left)
       IN  IF ~ r.ok
           THEN /\ last' = [ op |-> "find_good_limits_failed",
                             args |-> << above >>, trace |-> <<>> ]
                /\ UNCHANGED <<info, arrays, projector>>
           ELSE IF ~ IsSome(r.found)
           THEN /\ last' = [ op |-> "find_good_limits",
                             args |-> << above, None >>, trace |-> <<>> ]
                /\ UNCHANGED <<info, arrays, projector>>
           ELSE LET n_left == ClampLimits(Val(r.found), min_left, max_right)[1]
                    n_right == ClampLimits(Val(r.found), min_left, max_right)[2]
                    index == Val(arrays["some_peaks_index"])
                    peak_seq == IF IsSome(all_peaks) THEN Val(all_peaks) ELSE <<>>
                    seg_nums == SortedSeq({ peak_seq[i].segment : i \in DOMAIN peak_seq })
                    rows == WaveformRows(peak_seq, Range(index), seg_nums)
                    sample == [ arrays EXCEPT
                                 !["some_peaks_index"] = Some(UniqueIndex(index)),
                                 !["some_waveforms"] = Some([ width |-> n_right - n_left,
                                                              rows |-> rows ]) ]
                IN  /\ projector' = None
                    /\ IF \E i \in DOMAIN index : index[i] >= nb_peak(all_peaks)
                       THEN \* the index selection does not fit the peak table
                            /\ last' = [ op |-> "find_good_limits_failed",
                                         args |-> << above >>, trace |-> <<>> ]
                            /\ UNCHANGED <<info, arrays>>
                       ELSE IF ~ IsSome(all_peaks)
                       THEN \* both arrays are replaced, then the peak table is read
                            /\ arrays' = sample
                            /\ info' = info
                            /\ last' = [ op |-> "find_good_limits_failed",
                                         args |-> << above >>, trace |-> <<>> ]
                       ELSE /\ arrays' = Reproject(sample, None)
                            /\ info' = [ info EXCEPT !.params_waveformextractor =
                                            Some([ n_left |-> n_left, n_right |-> n_right,
                                                   nb_max |-> DEFAULT_NB_MAX,
                                                   align_waveform |->
                                                       Val(info.params_waveformextractor).align_waveform ]) ]
                            /\ last' = [ op |-> "find_good_limits",
                                         args |-> << above, Some(<< n_left, n_right >>),
                                                     << min_left, max_right >>, projector >>,
                                         trace |-> <<>> ]
    /\ UNCHANGED <<signals_noise, processed, peaks_buf, all_peaks, clusters,
                   centroids, engines, pc>>
    /\ UNCHANGED <<catalogue, colors>>

\* the patterns of flagged offsets find_good_limits may meet on the current
\* working sample
AbovePatterns ==
    IF IsSome(arrays["some_waveforms"])
    THEN [ 1 .. Val(arrays["some_waveforms"]).width -> BOOLEAN ]
    ELSE {}

\* np.nonzero(possibles): the samples extract_some_noise may draw, given the
\* processed length (in samples) and the window width
PossibleIndexes(length, peak_width) ==
    { i \in 0 .. (length - 1) : i >= peak_width /\ i < length - peak_width }

\* possible_indexes[np.sort(np.random.choice(possible_indexes.size, size=n))]:
\* every sorted draw of n samples, repeats allowed
NoiseChoices(n, possible) ==
    { d \in [ 1 .. n -> possible ] : \A i, j \in 1 .. n : i < j => d[i] <= d[j] }

RECURSIVE NoiseIndex(_, _)
\* np.concatenate(some_noise_index): the draws of every segment from seg_num on
NoiseIndex(draws, seg_num) ==
    IF seg_num >= NbSegment THEN <<>>
    ELSE [ i \in DOMAIN draws[seg_num + 1] |->
             [ index |-> draws[seg_num + 1][i], label |-> LABEL_NOISE, segment |-> seg_num ] ]
         \o NoiseIndex(draws, seg_num + 1)

\* extract_some_noise(nb_snippet); draws is what np.random.choice returned for
\* each segment
extract_some_noise(nb_snippet, draws) ==
    /\ pc.op = "idle"
    /\ IsSome(info.params_waveformextractor)
    /\ IsSome(info.processed_length)
    /\ IsSome(all_peaks)
    /\ LET n_left == Val(info.params_waveformextractor).n_left
           n_right == Val(info.params_waveformextractor).n_right
           peak_width == n_right - n_left
           n_by_seg == nb_snippet \div NbSegment
           possible == PossibleIndexes(Val(info.processed_length), peak_width)
       IN  /\ n_by_seg = 0 \/ possible # {}
           /\ draws \in [ 1 .. NbSegment -> NoiseChoices(n_by_seg, possible) ]
           /\ arrays' = [ arrays EXCEPT
                    !["some_noise_index"] = Some(NoiseIndex(draws, 0)),
                    !["some_noise_snippet"] =
                        Some([ width |-> peak_width,
                               rows |-> [ i \in DOMAIN NoiseIndex(draws, 0) |->
                                            [ segment |-> NoiseIndex(draws, 0)[i].segment,
                                              index |-> NoiseIndex(draws, 0)[i].index ] ] ]) ]
    /\ last' = [ op |-> "extract_some_noise", args |-> << nb_snippet >>, trace |-> <<>> ]
    /\ UNCHANGED <<info, signals_noise, processed, peaks_buf, all_peaks, clusters,
                   projector, centroids, engines, pc>>
    /\ UNCHANGED <<catalogue, colors>>

\* extract_some_features(method): the projection is fitted on the working
\* sample and applied to it, and to the noise snippets when there are some
extract_some_features ==
    /\ pc.op = "idle"
    /\ IsSome(arrays["some_waveforms"])
    \* a projection is fitted on a sample that holds waveforms
    /\ Len(Val(arrays["some_waveforms"]).rows) > 0
    /\ LET wf == Val(arrays["some_waveforms"])
           noise == arrays["some_noise_snippet"]
       IN  /\ projector' = Some(wf.width)
           /\ arrays' = [ arrays EXCEPT
                    !["some_features"] = Some([ n |-> Len(wf.rows), projector |-> wf.width ]),
                    !["channel_to_features"] = Some(1),
                    !["some_noise_features"] =
                        IF IsSome(noise) /\ Val(noise).width = wf.width
                        THEN Some([ n |-> Len(Val(noise).rows), projector |-> wf.width ])
                        ELSE @ ]
           /\ last' = IF IsSome(noise) /\ Val(noise).width # wf.width
                      THEN Did("extract_some_features_failed")
                      ELSE Did("extract_some_features")
    /\ UNCHANGED <<info, signals_noise, processed, peaks_buf, all_peaks, clusters,
                   centroids, engines, pc>>
    /\ UNCHANGED <<catalogue, colors>>

\* the four metric computations after compute_centroid, on the centroid cache
\* cen and the table cl compute_centroid left. Result: the arrays, and
\* whether every computation returned normally
ComputeMetrics(arr, cen, cl, peaks, inf) ==
    LET wf == arr["some_waveforms"]
        labels == { k \in Range(cluster_labels(cl)) : k >= 0 }
        per_spike == IF IsSome(wf) THEN Some(Len(Val(wf).rows)) ELSE None
        per_cluster == IF labels = {} THEN None ELSE Some(Cardinality(labels))
        a1 == [ arr EXCEPT !["spike_waveforms_similarity"] = per_spike ]
        a2 == [ a1 EXCEPT !["cluster_similarity"] = per_cluster ]
        a3 == [ a2 EXCEPT !["cluster_ratio_similarity"] = per_cluster ]
        a4 == [ a3 EXCEPT !["spike_silhouette"] = per_spike ]
    IN  IF \E k \in labels : k \notin DOMAIN Val(cen)
        THEN [ arrays |-> a1, ok |-> FALSE ]
        ELSE IF labels # {} /\ ~ IsSome(inf.params_waveformextractor)
        THEN [ arrays |-> a2, ok |-> FALSE ]
        ELSE IF IsSome(wf) /\ ~ IsSome(peaks)
        THEN [ arrays |-> a3, ok |-> FALSE ]
        ELSE [ arrays |-> a4, ok |-> TRUE ]

\* CatalogueWindow.compute_metrics: the centroids, then the four metrics
compute_metrics ==
    /\ pc.op = "idle"
    /\ LET r == ComputeCentroid(None, centroids, clusters, all_peaks, arrays, info)
           m == ComputeMetrics(arrays, r.centroids, r.clusters, all_peaks, info)
       IN  /\ centroids' = r.centroids
           /\ clusters' = r.clusters
           /\ arrays' = IF r.ok THEN m.arrays ELSE arrays
           /\ last' = IF r.ok /\ m.ok THEN Did("compute_metrics")
                      ELSE Did("compute_metrics_failed")
    /\ UNCHANGED <<info, signals_noise, processed, peaks_buf, all_peaks, projector,
                   engines, pc>>
    /\ UNCHANGED <<catalogue, colors>>

---------------------------------------------------------------------------
(* Cluster manager *)

\* cluster.find_clusters: the clustering algorithm assigns a label to every
\* selected peak (selection: a set of peak positions, 1-based)
AssignLabels(peak_seq, selection, assignment) ==
    [ i \in DOMAIN peak_seq |->
        IF i \in selection THEN [ peak_seq[i] EXCEPT !.label = assignment[i] ] ELSE peak_seq[i] ]

\* find_clusters(selection=None)
find_clusters(assignment) ==
    /\ pc.op = "idle"
    /\ IsSome(all_peaks)
    /\ nb_peak(all_peaks) > 0
    /\ assignment \in [ DOMAIN Val(all_peaks) -> 0 .. MaxLabel ]
    /\ all_peaks' = Some(AssignLabels(Val(all_peaks), DOMAIN Val(all_peaks), assignment))
    /\ clusters' = on_new_cluster(all_peaks', clusters)
    /\ last' = Did("find_clusters")
    /\ UNCHANGED <<info, signals_noise, processed, peaks_buf, arrays, projector,
                   centroids, engines, pc>>
    /\ UNCHANGED <<catalogue, colors>>

\* split_cluster(label)
split_cluster(label, assignment) ==
    /\ pc.op = "idle"
    /\ IsSome(all_peaks)
    /\ LET mask == { i \in DOMAIN Val(all_peaks) : Val(all_peaks)[i].label = label }
       IN  /\ mask # {}
           /\ assignment \in [ mask -> 0 .. MaxLabel ]
           /\ all_peaks' = Some(AssignLabels(Val(all_peaks), mask, assignment))
    /\ clusters' = on_new_cluster(all_peaks', clusters)
    /\ last' = Did("split_cluster")
    /\ UNCHANGED <<info, signals_noise, processed, peaks_buf, arrays, projector,
                   centroids, engines, pc>>
    /\ UNCHANGED <<catalogue, colors>>

\* find_clusters(selection=mask): only the selected peaks are relabelled (the
\* mask is a set of peak positions, 1-based)
find_clusters_selection(selection, assignment) ==
    /\ pc.op = "idle"
    /\ IsSome(all_peaks)
    /\ selection # {}
    /\ selection \subseteq DOMAIN Val(all_peaks)
    /\ assignment \in [ selection -> 0 .. MaxLabel ]
    /\ all_peaks' = Some(AssignLabels(Val(all_peaks), selection, assignment))
    /\ clusters' = on_new_cluster(all_peaks', clusters)
    /\ last' = [ op |-> "find_clusters", args |-> << selection >>, trace |-> <<>> ]
    /\ UNCHANGED <<info, signals_noise, processed, peaks_buf, arrays, projector,
                   centroids, engines, pc>>
    /\ UNCHANGED <<catalogue, colors>>

\* trash_small_cluster(n)
trash_small_cluster(n) ==
    /\ pc.op = "idle"
    /\ IsSome(all_peaks)
    /\ all_peaks' = Some(WithLabels(Val(all_peaks),
                        TrashLoop(Labels(Val(all_peaks)), cluster_labels(clusters), 1, n)))
    /\ clusters' = on_new_cluster(all_peaks', clusters)
    /\ last' = [ op |-> "trash_small_cluster", args |-> <<n>>,
                 trace |-> << Labels(Val(all_peaks)) >> ]
    /\ UNCHANGED <<info, signals_noise, processed, peaks_buf, arrays, projector,
                   centroids, engines, pc>>
    /\ UNCHANGED <<catalogue, colors>>

\* the cell label of the group, were it the largest label of the group
GroupLabel_Largest(labels_to_group) ==
    CHOOSE x \in labels_to_group : \A y \in labels_to_group : y <= x

\* the cell label tag_same_cell gives to the group: min(labels_to_group)
GroupLabel(labels_to_group) ==
    CHOOSE x \in labels_to_group : \A y \in labels_to_group : x <= y

\* tag_same_cell(labels_to_group)
tag_same_cell(labels_to_group) ==
    /\ pc.op = "idle"
    /\ IsSome(clusters)
    /\ labels_to_group # {}
    /\ LET m == GroupLabel(labels_to_group)
       IN  clusters' = Some([ i \in DOMAIN Val(clusters) |->
                IF Val(clusters)[i].cluster_label \in labels_to_group
                THEN [ Val(clusters)[i] EXCEPT !.cell_label = m ]
                ELSE Val(clusters)[i] ])
    /\ last' = [ op |-> "tag_same_cell", args |-> << labels_to_group >>, trace |-> <<>> ]
    /\ UNCHANGED <<info, signals_noise, processed, peaks_buf, all_peaks, arrays,
                   projector, centroids, engines, pc>>
    /\ UNCHANGED <<catalogue, colors>>

\* compute_centroid(label_changed)
compute_centroid(label_changed) ==
    /\ pc.op = "idle"
    /\ LET r == ComputeCentroid(label_changed, centroids, clusters, all_peaks, arrays, info)
       IN  /\ centroids' = r.centroids
           /\ clusters' = r.clusters
           /\ last' = [ op |-> IF r.ok THEN "compute_centroid" ELSE "compute_centroid_failed",
                        args |-> << label_changed >>, trace |-> <<>> ]
    /\ UNCHANGED <<info, signals_noise, processed, peaks_buf, all_peaks, arrays,
                   projector, engines, pc>>
    /\ UNCHANGED <<catalogue, colors>>

\* the keys order_clusters accepts
OrderKeys == {"waveforms_rms", "max_peak_amplitude"}

\* order_clusters(by); order is the result of the argsort
order_clusters(by, order) ==
    /\ pc.op = "idle"
    /\ LET r == IF IsSome(centroids)
                THEN [ centroids |-> centroids, clusters |-> clusters, ok |-> TRUE ]
                ELSE ComputeCentroid(None, centroids, clusters, all_peaks, arrays, info)
           rows == IF IsSome(r.clusters) THEN Val(r.clusters) ELSE <<>>
           pos == PosRows(rows)
       IN  /\ centroids' = r.centroids
           /\ IF /\ r.ok
                 /\ IsSome(r.clusters)
                 /\ by \in OrderKeys
                 /\ Len(pos) > 0
                 /\ IsSome(all_peaks)
              THEN /\ order \in OrderChoices(pos, by)
                   /\ LET sorted_labels == [ i \in DOMAIN order |-> pos[order[i]].cluster_label ]
                          N == LabelOffset(sorted_labels)
                          trace == RemapTrace(Labels(Val(all_peaks)), sorted_labels, N)
                      IN  /\ all_peaks' = Some(WithLabels(Val(all_peaks), trace[Len(trace)]))
                          /\ clusters' = Some(ReorderedTable(rows, order, N))
                          /\ last' = [ op |-> "order_clusters", args |-> <<by>>,
                                       trace |-> << Labels(Val(all_peaks)) >> \o trace ]
              ELSE /\ order = <<>>
                   /\ clusters' = r.clusters
                   /\ all_peaks' = all_peaks
                   /\ last' = [ op |-> "order_clusters_failed",
                                args |-> IF r.ok /\ IsSome(r.clusters) /\ by \notin OrderKeys
                                         THEN << by, RaisedBare >> ELSE << by >>,
                                trace |-> <<>> ]
    /\ UNCHANGED <<info, signals_noise, processed, peaks_buf, arrays, projector,
                   engines, pc>>
    /\ UNCHANGED <<catalogue, colors>>

---------------------------------------------------------------------------
(* Specifications *)

\* the relabelling operations of the cluster manager
ClusterOps ==
    \/ \E a \in UNION { [ 1 .. n -> 0 .. MaxLabel ] : n \in 1 .. MaxPeaks } : find_clusters(a)
    \/ \E k \in 0 .. MaxLabel, a \in UNION { [ S -> 0 .. MaxLabel ] : S \in SUBSET (1 .. MaxPeaks) } :
            split_cluster(k, a)
    \/ \E n \in 0 .. MaxPeaks : trash_small_cluster(n)
    \/ \E g \in SUBSET Range(cluster_labels(clusters)) : tag_same_cell(g)
    \/ compute_centroid(None)
    \/ \E by \in OrderKeys,
          order \in UNION { [ 1 .. n -> 1 .. n ] : n \in 0 .. (MaxLabel + 1) } :
            order_clusters(by, order)

\* one recording session: detection with every threshold, one working sample
\* of all the peaks, and the cluster manager
NextClusters ==
    \/ ~ IsSome(info.chunksize) /\ set_preprocessor_params(0, 2)
    \/ ~ IsSome(signals_noise) /\ estimate_signals_noise(0, ChunkSize)
    \/ CanAppend(peaks_buf) /\ run_signalprocessor(2 * ChunkSize, TRUE)
    \/ signalprocessor_one_chunk
    \/ finalize_signalprocessor_loop
    \/ \E thr \in Thresholds : re_detect_peak(thr)
    \/ re_detect_peak_one_chunk
    \/ re_detect_peak_finalize
    \/ \E raw \in { [ i \in 1 .. nb_peak(all_peaks) |-> i - 1 ] } :
            extract_some_waveforms(Some(<<-2, 1>>), None, "all", MaxPeaks, FALSE, raw)
    \/ ClusterOps

SpecClusters == Init /\ [][NextClusters]_vars

\* one recording session in which the clustering runs on a selection of the
\* peaks: detection, one working sample of all the peaks, clustering of any
\* selection, grouping into cells and ordering
NextCells ==
    \/ ~ IsSome(info.chunksize) /\ set_preprocessor_params(0, 2)
    \/ ~ IsSome(signals_noise) /\ estimate_signals_noise(0, ChunkSize)
    \/ CanAppend(peaks_buf) /\ run_signalprocessor(2 * ChunkSize, TRUE)
    \/ signalprocessor_one_chunk
    \/ finalize_signalprocessor_loop
    \/ \E raw \in { [ i \in 1 .. nb_peak(all_peaks) |-> i - 1 ] } :
            extract_some_waveforms(Some(<<-2, 1>>), None, "all", MaxPeaks, FALSE, raw)
    \/ \E sel \in SUBSET (1 .. MaxPeaks), a \in UNION { [ S -> 0 .. MaxLabel ] : S \in SUBSET (1 .. MaxPeaks) } :
            find_clusters_selection(sel, a)
    \/ \E g \in SUBSET Range(cluster_labels(clusters)) : tag_same_cell(g)
    \/ \E by \in OrderKeys,
          order \in UNION { [ 1 .. n -> 1 .. n ] : n \in 0 .. (MaxLabel + 1) } :
            order_clusters(by, order)

SpecCells == Init /\ [][NextCells]_vars

\* one recording session whose detection run may be interrupted: detection at a moderate
\* threshold, re-detection with every threshold, every producer of an array
\* downstream of detection, and one clustering into a single cluster
NextStream ==
    \/ ~ IsSome(info.chunksize) /\ set_preprocessor_params(0, 4)
    \/ ~ IsSome(signals_noise) /\ estimate_signals_noise(0, ChunkSize)
    \/ run_signalprocessor(2 * ChunkSize, TRUE)
    \/ signalprocessor_one_chunk
    \/ finalize_signalprocessor_loop
    \/ pc.op = "run" /\ Interrupt
    \/ \E thr \in Thresholds : re_detect_peak(thr)
    \/ re_detect_peak_one_chunk
    \/ re_detect_peak_finalize
    \/ \E raw \in { [ i \in 1 .. nb_peak(all_peaks) |-> i - 1 ] } :
            extract_some_waveforms(Some(<<-2, 1>>), None, "all", MaxPeaks, FALSE, raw)
    \/ \E draws \in { [ seg \in 1 .. NbSegment |-> <<3>> ] } :
            extract_some_noise(NbSegment, draws)
    \/ extract_some_features
    \/ compute_metrics
    \/ \E a \in { [ i \in 1 .. nb_peak(all_peaks) |-> 0 ] } : find_clusters(a)

SpecStream == Init /\ [][NextStream]_vars

\* the selections asked of extract_some_waveforms: an explicit index with
\* repeated entries, every peak, or a random draw
Selections ==
    { << Some(<<0, 0>>), "rand", MaxPeaks >>, << Some(<<1, 0, 1>>), "rand", MaxPeaks >>,
      << None, "all", 2 >>, << None, "rand", 2 >>, << None, "rand", MaxPeaks >> }

\* one recording session in which the preprocessing is configured again at any
\* time, and the working sample is taken with every selection policy and
\* two window shapes, re-cut by find_good_limits and projected
NextSample ==
    \/ set_preprocessor_params(0, 2)
    \/ ~ IsSome(signals_noise) /\ estimate_signals_noise(0, ChunkSize)
    \/ CanAppend(peaks_buf) /\ run_signalprocessor(2 * ChunkSize, TRUE)
    \/ signalprocessor_one_chunk
    \/ finalize_signalprocessor_loop
    \/ \E thr \in Thresholds : re_detect_peak(thr)
    \/ re_detect_peak_one_chunk
    \/ re_detect_peak_finalize
    \/ \E bounds \in { Some(<<-2, 1>>), Some(<<-1, 1>>) }, sel \in Selections :
         \E raw \in SelectionChoices(sel[1], sel[2], sel[3], nb_peak(all_peaks)) :
            extract_some_waveforms(bounds, sel[1], sel[2], sel[3], FALSE, raw)
    \/ \E above \in AbovePatterns : find_good_limits(above, -1, 1)
    \/ extract_some_features
    \/ apply_projection

SpecSample == Init /\ [][NextSample]_vars

\* one recording session in which the preprocessing is configured again at any
\* time, one working sample of all the peaks is taken, and the peaks are
\* relabelled while centroids and metrics are computed on demand
NextCache ==
    \/ set_preprocessor_params(0, 2)
    \/ ~ IsSome(signals_noise) /\ estimate_signals_noise(0, ChunkSize)
    \/ CanAppend(peaks_buf) /\ run_signalprocessor(2 * ChunkSize, TRUE)
    \/ signalprocessor_one_chunk
    \/ finalize_signalprocessor_loop
    \/ \E raw \in { [ i \in 1 .. nb_peak(all_peaks) |-> i - 1 ] } :
            extract_some_waveforms(Some(<<-2, 1>>), None, "all", MaxPeaks, FALSE, raw)
    \/ find_good_limits(<<FALSE, TRUE, FALSE>>, -1, 1)
    \/ \E a \in UNION { [ 1 .. n -> 0 .. MaxLabel ] : n \in 1 .. MaxPeaks } : find_clusters(a)
    \/ \E k \in 0 .. MaxLabel, a \in UNION { [ S -> 0 .. MaxLabel ] : S \in SUBSET (1 .. MaxPeaks) } :
            split_cluster(k, a)
    \/ trash_small_cluster(1)
    \/ \E order \in UNION { [ 1 .. n -> 1 .. n ] : n \in 0 .. (MaxLabel + 1) } :
            order_clusters("waveforms_rms", order)
    \/ \E label_changed \in { None } \cup { Some(<<k>>) : k \in 0 .. MaxLabel } :
            compute_centroid(label_changed)
    \/ compute_metrics

SpecCache == Init /\ [][NextCache]_vars

\* one pass through every stage (detection, working sample, projection, one
\* clustering, metrics), the preprocessing being configured again with either
\* threshold at any time between two operations
NextConfigure ==
    \/ \E thr \in {2, 4} : set_preprocessor_params(0, thr)
    \/ ~ IsSome(signals_noise) /\ estimate_signals_noise(0, ChunkSize)
    \/ CanAppend(peaks_buf) /\ run_signalprocessor(2 * ChunkSize, TRUE)
    \/ signalprocessor_one_chunk
    \/ finalize_signalprocessor_loop
    \/ \E raw \in { [ i \in 1 .. nb_peak(all_peaks) |-> i - 1 ] } :
            extract_some_waveforms(Some(<<-2, 1>>), None, "all", MaxPeaks, FALSE, raw)
    \/ extract_some_features
    \/ \E a \in { [ i \in 1 .. nb_peak(all_peaks) |-> 0 ] } : find_clusters(a)
    \/ compute_metrics

SpecConfigure == Init /\ [][NextConfigure]_vars

\* the durations asked of estimate_signals_noise, in samples: below, between,
\* at and above the segment lengths
NoiseDurations == { ChunkSize, 2 * ChunkSize + 2, 3 * ChunkSize, 4 * ChunkSize }

\* the samples np.random.choice is let to draw in extract_some_noise: around
\* the margins of the window width, next to peaks and away from them
NoisePositions == { 2, 3, 5, 8, 9 }

\* one recording session in which the noise is estimated on either segment
\* with every duration before the run, the whole recording is processed, and
\* noise snippets are drawn next to a working sample of all the peaks
NextNoise ==
    \/ ~ IsSome(info.chunksize) /\ set_preprocessor_params(0, 2)
    \/ /\ ~ IsSome(info.processed_length)
       /\ \E seg_num \in Segments, duration \in NoiseDurations :
            estimate_signals_noise(seg_num, duration)
    \/ CanAppend(peaks_buf) /\ run_signalprocessor(3 * ChunkSize, TRUE)
    \/ signalprocessor_one_chunk
    \/ finalize_signalprocessor_loop
    \/ \E raw \in { [ i \in 1 .. nb_peak(all_peaks) |-> i - 1 ] } :
            extract_some_waveforms(Some(<<-2, 1>>), None, "all", MaxPeaks, FALSE, raw)
    \/ \E nb_snippet \in { NbSegment, 2 * NbSegment } :
         \E draws \in [ 1 .. NbSegment ->
                        NoiseChoices(nb_snippet \div NbSegment, NoisePositions) ] :
            extract_some_noise(nb_snippet, draws)

SpecNoise == Init /\ [][NextNoise]_vars

\* one recording session in which a working sample of all the peaks is cut
\* with either of two wide windows, which find_good_limits then narrows for every pattern
\* of flagged offsets
NextLimits ==
    \/ ~ IsSome(info.chunksize) /\ set_preprocessor_params(0, 2)
    \/ ~ IsSome(signals_noise) /\ estimate_signals_noise(0, ChunkSize)
    \/ CanAppend(peaks_buf) /\ run_signalprocessor(2 * ChunkSize, TRUE)
    \/ signalprocessor_one_chunk
    \/ finalize_signalprocessor_loop
    \/ \E bounds \in { Some(<<-3, 2>>), Some(<<-3, 3>>) }, align_waveform \in BOOLEAN :
         \E raw \in { [ i \in 1 .. nb_peak(all_peaks) |-> i - 1 ] } :
            extract_some_waveforms(bounds, None, "all", MaxPeaks, align_waveform, raw)
    \/ \E above \in AbovePatterns, limits \in { <<-1, 1>>, <<-2, 2>> } :
            find_good_limits(above, limits[1], limits[2])
    \/ extract_some_features

SpecLimits == Init /\ [][NextLimits]_vars

---------------------------------------------------------------------------
(* Properties: vocabulary *)

\* the operations that end with a Rebuild, as recorded once they completed
RebuildOps ==
    {"run_signalprocessor", "re_detect_peak", "find_clusters", "split_cluster",
     "trash_small_cluster"}

\* rows of a cluster table that may be None
RowsOf(cl) == IF IsSome(cl) THEN Val(cl) ELSE <<>>

\* records of a peak table that may be None
PeaksOf(peaks) == IF IsSome(peaks) THEN Val(peaks) ELSE <<>>

RECURSIVE SumNbPeak(_, _)
\* sum of nb_peak over the rows from position i on
SumNbPeak(rows, i) ==
    IF i > Len(rows) THEN 0 ELSE rows[i].nb_peak + SumNbPeak(rows, i + 1)

\* number of peaks with a non-negative label
CountNonNegative(peak_seq) == Cardinality({ i \in DOMAIN peak_seq : peak_seq[i].label >= 0 })

\* the table has exactly one row per label of the peak table, with its count
TableMatchesPeaks(rows, peak_seq) ==
    /\ { rows[i].cluster_label : i \in DOMAIN rows } = { peak_seq[i].label : i \in DOMAIN peak_seq }
    /\ \A i, j \in DOMAIN rows : rows[i].cluster_label = rows[j].cluster_label => i = j
    /\ \A i \in DOMAIN rows : rows[i].nb_peak = CountLabel(peak_seq, rows[i].cluster_label)

---------------------------------------------------------------------------
(* C1 *)

---------------------------------------------------------------------------
(* C2 *)

\* C2: after every completed operation that ends with a Rebuild, whatever the
\* previous table and the number of peaks (zero included), the cluster table
\* lists exactly the labels present in the peak table and every nb_peak is the
\* number of peaks carrying the label.
C2_TableIsCurrent ==
    last.op \in RebuildOps => TableMatchesPeaks(RowsOf(clusters), PeaksOf(all_peaks))

---------------------------------------------------------------------------
(* C3 *)

\* C3: a Rebuild preserves identity: a row whose cluster_label was in the
\* previous table keeps that row's cell_label, a row whose cluster_label is
\* new gets its own cluster_label as cell_label.
C3_RebuildKeepsCell ==
    [][ last'.op \in RebuildOps =>
          LET old == RowsOf(clusters)
              new == RowsOf(clusters')
          IN  \A i \in DOMAIN new :
                IF \E j \in DOMAIN old : old[j].cluster_label = new[i].cluster_label
                THEN \A j \in DOMAIN old :
                        old[j].cluster_label = new[i].cluster_label
                            => new[i].cell_label = old[j].cell_label
                ELSE new[i].cell_label = new[i].cluster_label ]_vars

\* a Rebuild on a non-empty peak table has kept a cell_label that differs
\* from the cluster_label of its row, beside a row that is its own cell
C3_Witness ==
    /\ last.op \in RebuildOps
    /\ nb_peak(all_peaks) > 0
    /\ \E i, j \in DOMAIN RowsOf(clusters) :
            /\ RowsOf(clusters)[i].cell_label # RowsOf(clusters)[i].cluster_label
            /\ RowsOf(clusters)[j].cell_label = RowsOf(clusters)[j].cluster_label

---------------------------------------------------------------------------
(* C4 *)

\* the multiset of peak counts per non-negative label, as a sorted sequence
PeakCounts(labs) ==
    LET ks == SortedSeq({ l \in Range(labs) : l >= 0 })
    IN  SortInts([ i \in DOMAIN ks |-> Cardinality({ p \in DOMAIN labs : labs[p] = ks[i] }) ])

\* the one-to-one maps from 1..n onto 1..n
Bijections(n) == { f \in [ 1 .. n -> 1 .. n ] : \A i, j \in 1 .. n : i # j => f[i] # f[j] }

\* C4: order_clusters keeps the multiset of peak counts per non-negative label,
\* and two non-negative clusters that shared a cell_label before the call share
\* one after it (a cluster is followed through the call by its peaks and its
\* nb_peak).
C4_OrderKeepsGroups ==
    [][ last'.op = "order_clusters" =>
          LET old == PosRows(RowsOf(clusters))
              new == PosRows(RowsOf(clusters'))
              before == Labels(PeaksOf(all_peaks))
              after == Labels(PeaksOf(all_peaks'))
          IN  /\ PeakCounts(before) = PeakCounts(after)
              /\ Len(old) = Len(new)
              /\ \E f \in Bijections(Len(old)) :
                    /\ \A i \in DOMAIN old : new[f[i]].nb_peak = old[i].nb_peak
                    /\ \A i \in DOMAIN old : \A p \in DOMAIN before :
                          before[p] = old[i].cluster_label <=> after[p] = new[f[i]].cluster_label
                    /\ \A i, j \in DOMAIN old :
                          old[i].cell_label = old[j].cell_label
                              => new[f[i]].cell_label = new[f[j]].cell_label ]_vars

\* order_clusters has exchanged the labels of two clusters that share a cell
C4_Witness ==
    /\ last.op = "order_clusters"
    /\ \E p, q \in DOMAIN last.trace[1] :
            /\ last.trace[1][p] = 0 /\ Val(all_peaks)[p].label = 1
            /\ last.trace[1][q] = 1 /\ Val(all_peaks)[q].label = 0
    /\ \E i, j \in DOMAIN Val(clusters) :
            /\ Val(clusters)[i].cluster_label = 0
            /\ Val(clusters)[j].cluster_label = 1
            /\ Val(clusters)[i].cell_label = Val(clusters)[j].cell_label

---------------------------------------------------------------------------
(* C5 *)

\* C5: order_clusters relabels by a bijection: afterwards the non-negative rows
\* carry the labels 0..n-1 in table order with the chosen metric descending
\* (unset metrics first, as the sort places them), two peaks of non-negative
\* clusters share a label after the call exactly when they did before, and no
\* value the label column goes through gives the peaks of two different
\* clusters the same label.
C5_OrderIsBijection ==
    last.op = "order_clusters" =>
        LET orig == last.trace[1]
            pos == PosRows(Val(clusters))
            by == last.args[1]
        IN  /\ \A i \in DOMAIN pos : pos[i].cluster_label = i - 1
            /\ \A i \in 1 .. (Len(pos) - 1) :
                    KeyLeq(OrderKey(pos[i + 1], by), OrderKey(pos[i], by))
            /\ last.trace[Len(last.trace)] = Labels(Val(all_peaks))
            /\ { l \in Range(Labels(Val(all_peaks))) : l >= 0 } \subseteq 0 .. (Len(pos) - 1)
            /\ \A t \in 2 .. Len(last.trace) : \A p, q \in DOMAIN orig :
                    last.trace[t][p] = last.trace[t][q] <=> orig[p] = orig[q]

\* order_clusters has exchanged the labels 0 and 1 of two clusters whose
\* metric is set
C5_Witness ==
    /\ last.op = "order_clusters"
    /\ \E p, q \in DOMAIN last.trace[1] :
            /\ last.trace[1][p] = 0 /\ Val(all_peaks)[p].label = 1
            /\ last.trace[1][q] = 1 /\ Val(all_peaks)[q].label = 0
    /\ \A i \in DOMAIN Val(clusters) :
            Val(clusters)[i].cluster_label >= 0 => IsSome(OrderKey(Val(clusters)[i], last.args[1]))

---------------------------------------------------------------------------
(* C6 *)

\* C6: order_clusters leaves the label of every peak with a negative label
\* unchanged, at every step of the remap, and leaves the rows with a negative
\* cluster_label unchanged.
C6_OrderKeepsReserved ==
    [][ last'.op = "order_clusters" =>
          /\ \A p \in DOMAIN PeaksOf(all_peaks) :
                PeaksOf(all_peaks)[p].label < 0 =>
                    /\ PeaksOf(all_peaks')[p].label = PeaksOf(all_peaks)[p].label
                    /\ \A t \in DOMAIN last'.trace :
                          last'.trace[t][p] = PeaksOf(all_peaks)[p].label
          /\ NegRows(RowsOf(clusters')) = NegRows(RowsOf(clusters)) ]_vars

\* order_clusters has relabelled a cluster beside peaks and a row with a
\* reserved label
C6_Witness ==
    /\ last.op = "order_clusters"
    /\ \E p, q \in DOMAIN last.trace[1] :
            /\ last.trace[1][p] < 0
            /\ last.trace[1][q] >= 0 /\ Val(all_peaks)[q].label # last.trace[1][q]
    /\ NegRows(Val(clusters)) # <<>>

---------------------------------------------------------------------------
(* C7 *)

\* C7 as stated: after trash_small_cluster(n) no peak carries the label of a
\* cluster whose nb_peak was <= n, its peaks carry the unclassified code, and
\* the peaks of the clusters with nb_peak > n keep their labels.
C7_AsStated ==
    [][ last'.op = "trash_small_cluster" =>
          LET n == last'.args[1]
              old == RowsOf(clusters)
              before == Labels(PeaksOf(all_peaks))
              after == Labels(PeaksOf(all_peaks'))
          IN  \A i \in DOMAIN old : \A p \in DOMAIN before :
                IF old[i].nb_peak <= n
                THEN /\ after[p] # old[i].cluster_label
                     /\ before[p] = old[i].cluster_label => after[p] = LABEL_UNCLASSIFIED
                ELSE before[p] = old[i].cluster_label => after[p] = before[p] ]_vars

\* C7, amended: after trash_small_cluster(n) no peak carries the label of a
\* cluster, other than the cluster -1 itself, whose nb_peak was <= n: its peaks
\* carry the label -1 (the trash code, not the unclassified code); the peaks of
\* the cluster -1 and of the clusters with nb_peak > n keep their labels.
C7_TrashMovesSmall ==
    [][ last'.op = "trash_small_cluster" =>
          LET n == last'.args[1]
              old == RowsOf(clusters)
              before == Labels(PeaksOf(all_peaks))
              after == Labels(PeaksOf(all_peaks'))
          IN  \A i \in DOMAIN old : \A p \in DOMAIN before :
                IF old[i].nb_peak <= n /\ old[i].cluster_label # TRASH_CODE
                THEN /\ after[p] # old[i].cluster_label
                     /\ before[p] = old[i].cluster_label => after[p] = TRASH_CODE
                ELSE before[p] = old[i].cluster_label => after[p] = before[p] ]_vars

\* trash_small_cluster has moved the peaks of a cluster to -1 and has kept
\* a larger cluster
C7_Witness ==
    /\ last.op = "trash_small_cluster"
    /\ \E p, q \in DOMAIN last.trace[1] :
            /\ last.trace[1][p] >= 0 /\ Val(all_peaks)[p].label = TRASH_CODE
            /\ last.trace[1][q] >= 0 /\ Val(all_peaks)[q].label = last.trace[1][q]

---------------------------------------------------------------------------
(* C8 *)

\* C8: after run or re_detect_peak completes, every array downstream of peak
\* detection is absent (working index, waveforms, features, channel map, noise
\* index / snippets / features, the four metrics), and the cluster table has
\* been rebuilt from the new peak table.
C8_DownstreamReset ==
    last.op \in {"run_signalprocessor", "re_detect_peak"} =>
        /\ PresentArrays(arrays) = {}
        /\ TableMatchesPeaks(RowsOf(clusters), PeaksOf(all_peaks))

---------------------------------------------------------------------------
(* C9 *)

RECURSIVE DetectedFrom(_, _, _)
\* the events of the conditioned signal that reach the threshold, among the
\* first upto[seg] chunks of each segment from seg on, as unclassified peaks
\* in segment order then sample order
DetectedFrom(threshold, upto, seg) ==
    IF seg >= NbSegment THEN <<>>
    ELSE LET samples == SortedSeq({ e[2] : e \in { x \in SignalEvents :
                                        /\ x[1] = seg
                                        /\ x[3] >= threshold
                                        /\ x[2] < upto[seg] * ChunkSize } })
         IN  [ i \in DOMAIN samples |->
                 [ index |-> samples[i], label |-> LABEL_UNCLASSIFIED, segment |-> seg ] ]
             \o DetectedFrom(threshold, upto, seg + 1)

\* C9: after re_detect_peak completes, the peak table holds exactly the peaks
\* the new detector reports on the conditioned signal, each once, unclassified
\* and with the segment it was detected in; no peak of the previous table
\* remains.
C9_RedetectFromScratch ==
    last.op = "re_detect_peak" =>
        all_peaks = Some(DetectedFrom(last.args[1], processed, 0))

\* re_detect_peak has completed on a table that held a classified peak the
\* new threshold rejects, and has found peaks in both segments
C9_Witness ==
    /\ last.op = "re_detect_peak"
    /\ IsSome(last.args[2])
    /\ \E i \in DOMAIN Val(last.args[2]) :
            /\ Val(last.args[2])[i].label >= 0
            /\ \A j \in DOMAIN Val(all_peaks) :
                    Val(all_peaks)[j].index # Val(last.args[2])[i].index
    /\ \A seg \in Segments : \E j \in DOMAIN Val(all_peaks) : Val(all_peaks)[j].segment = seg

---------------------------------------------------------------------------
(* C10 *)

\* C10: run is idempotent when re-run from the top: after a run completes,
\* whether or not an earlier run was interrupted after some chunks were
\* appended, the peak table is the one a single complete run leaves.
C10_RunIdempotent ==
    last.op = "run_signalprocessor" =>
        all_peaks = Some(DetectedFrom(Val(info.params_peakdetector),
                            [ seg \in Segments |->
                                RunLength(last.args[1], seg) - Val(info.params_signalpreprocessor) ],
                            0))

---------------------------------------------------------------------------
(* C11 *)

\* the working sample is absent, or its index selection is a duplicate-free
\* subset of the valid indices of the peak table peaks and its tensor has one
\* row per selected index
SampleConsistent(arr, peaks) ==
    LET index == arr["some_peaks_index"]
        wf == arr["some_waveforms"]
    IN  \/ ~ IsSome(index) /\ ~ IsSome(wf)
        \/ /\ IsSome(index) /\ IsSome(wf)
           /\ \A i, j \in DOMAIN Val(index) : i # j => Val(index)[i] # Val(index)[j]
           /\ \A i \in DOMAIN Val(index) : Val(index)[i] \in 0 .. (nb_peak(peaks) - 1)
           /\ Len(Val(wf).rows) = Len(Val(index))

\* C11: in every state reached by a sequence of public operations (no
\* streaming loop in progress), the working waveform sample is either absent
\* or consistent with the current peak table.
C11_SampleConsistent ==
    pc.op = "idle" => SampleConsistent(arrays, all_peaks)

---------------------------------------------------------------------------
(* C12 *)

\* a sequence without repeated entries
NoDuplicate(s) == \A i, j \in DOMAIN s : i # j => s[i] # s[j]

\* C12: after every extract call, whatever the selection policy (explicit
\* index with repeated entries, mode 'rand', mode 'all'), the persisted index
\* selection contains no duplicate entries.
C12_SelectionUnique ==
    last.op = "extract_some_waveforms" =>
        /\ IsSome(arrays["some_peaks_index"])
        /\ NoDuplicate(Val(arrays["some_peaks_index"]))

\* extract has completed with an explicit index that repeats an entry, the
\* persisted selection being shorter than the index given
C12_Witness ==
    /\ last.op = "extract_some_waveforms"
    /\ IsSome(last.args[2])
    /\ ~ NoDuplicate(last.args[1])
    /\ Len(Val(arrays["some_peaks_index"])) < Len(last.args[1])
    /\ Len(Val(arrays["some_peaks_index"])) > 1

---------------------------------------------------------------------------
(* C13 *)

\* C13: extract with mode 'all' and no explicit index, on a peak table of N
\* peaks, persists the index selection 0..N-1 and a waveform tensor with
\* exactly N rows and window_right - window_left samples per row.
C13_ModeAllTakesAll ==
    (last.op = "extract_some_waveforms" /\ ~ IsSome(last.args[2]) /\ last.args[3] = "all") =>
        /\ arrays["some_peaks_index"] = Some([ i \in 1 .. nb_peak(all_peaks) |-> i - 1 ])
        /\ IsSome(arrays["some_waveforms"])
        /\ Len(Val(arrays["some_waveforms"]).rows) = nb_peak(all_peaks)
        /\ Val(arrays["some_waveforms"]).width =
                Val(info.params_waveformextractor).n_right
                    - Val(info.params_waveformextractor).n_left

\* extract in mode 'all' has completed on a peak table that holds more peaks
\* than the nb_max given
C13_Witness ==
    /\ last.op = "extract_some_waveforms"
    /\ ~ IsSome(last.args[2])
    /\ last.args[3] = "all"
    /\ nb_peak(all_peaks) > last.args[4]
    /\ Len(Val(arrays["some_waveforms"]).rows) = nb_peak(all_peaks)

---------------------------------------------------------------------------
(* C14 *)

\* extract has completed in mode 'rand' without an explicit index
RandExtractDone ==
    last.op = "extract_some_waveforms" /\ ~ IsSome(last.args[2]) /\ last.args[3] = "rand"

\* C14, as stated: in mode 'rand' without an explicit index, when the peak
\* count exceeds max_count the persisted selection has exactly max_count
\* distinct peak indices.
C14_AsStated ==
    (RandExtractDone /\ nb_peak(all_peaks) > last.args[4]) =>
        /\ NoDuplicate(Val(arrays["some_peaks_index"]))
        /\ Len(Val(arrays["some_peaks_index"])) = last.args[4]

\* C14, amended: in mode 'rand' without an explicit index, when the peak count
\* N exceeds max_count, max_count indices are drawn with replacement and the
\* persisted selection is the set of the values drawn: between 1 and max_count
\* distinct valid peak indices; when N <= max_count the selection is all N
\* peaks.
C14_RandDrawsThenDedups ==
    RandExtractDone =>
        LET sel == Val(arrays["some_peaks_index"])
            N == nb_peak(all_peaks)
        IN  IF N > last.args[4]
            THEN /\ Len(last.args[1]) = last.args[4]
                 /\ NoDuplicate(sel)
                 /\ Range(sel) = Range(last.args[1])
                 /\ Len(sel) >= 1 /\ Len(sel) <= last.args[4]
                 /\ \A i \in DOMAIN sel : sel[i] \in 0 .. (N - 1)
            ELSE sel = [ i \in 1 .. N |-> i - 1 ]

\* extract has completed in mode 'rand' on more peaks than max_count, with a
\* draw that repeats a peak: fewer than max_count indices are persisted
C14_Witness ==
    /\ RandExtractDone
    /\ nb_peak(all_peaks) > last.args[4]
    /\ ~ NoDuplicate(last.args[1])
    /\ Len(Val(arrays["some_peaks_index"])) < last.args[4]

---------------------------------------------------------------------------
(* C15 *)

\* C15: in every state reached by a sequence of public operations, the
\* feature set is absent or derived from the current working sample: the
\* feature coordinates have one row per waveform of the current sample, and
\* the feature coordinates and the channel-attribution map are present
\* together or absent together.
C15_FeaturesFollowSample ==
    pc.op = "idle" =>
        /\ IsSome(arrays["some_features"]) <=> IsSome(arrays["channel_to_features"])
        /\ IsSome(arrays["some_features"]) =>
                /\ IsSome(arrays["some_waveforms"])
                /\ Val(arrays["some_features"]).n = Len(Val(arrays["some_waveforms"]).rows)
                /\ Val(arrays["some_features"]).projector = Val(arrays["some_waveforms"]).width

---------------------------------------------------------------------------
(* C16 *)

\* C16: when a projector has been fitted and extract is called with a window
\* shape compatible with it, the feature set is present after the call and
\* holds the transform of the new waveforms, one row per new waveform.
C16_ExtractReprojects ==
    (/\ last.op = "extract_some_waveforms"
     /\ IsSome(projector)
     /\ Val(projector) = Val(arrays["some_waveforms"]).width) =>
        /\ IsSome(arrays["some_features"])
        /\ Val(arrays["some_features"]).n = Len(Val(arrays["some_waveforms"]).rows)
        /\ Val(arrays["some_features"]).projector = Val(projector)

---------------------------------------------------------------------------
(* C17 *)

\* C17: apply_projection fails when no projector is fitted and leaves the
\* feature set unchanged in that case; when a projector is fitted and a
\* working sample (of the shape the projector was fitted on) exists it
\* succeeds and stores the transform of the current sample, the projector
\* being unchanged.
C17_ReapplyStoresFeatures ==
    [][ apply_projection =>
            IF ~ IsSome(projector)
            THEN /\ last'.op = "apply_projection_failed"
                 /\ arrays'["some_features"] = arrays["some_features"]
            ELSE (/\ IsSome(arrays["some_waveforms"])
                  /\ Val(arrays["some_waveforms"]).width = Val(projector)) =>
                    /\ last'.op = "apply_projection"
                    /\ projector' = projector
                    /\ arrays'["some_features"] =
                            Some([ n |-> Len(Val(arrays["some_waveforms"]).rows),
                                   projector |-> Val(projector) ]) ]_vars

---------------------------------------------------------------------------
(* C18 *)

\* the operations that change peak labels or replace the working sample
MetricInputOps ==
    {"find_clusters", "split_cluster", "trash_small_cluster", "order_clusters",
     "extract_some_waveforms", "find_good_limits"}

\* the current non-negative cluster labels
PositiveLabels == { k \in Range(cluster_labels(clusters)) : k >= 0 }

\* C18: after any operation that changes peak labels or replaces the working
\* sample, each cached similarity metric is absent or fits the current labels
\* and sample: the per-cluster matrices have one row per current non-negative
\* cluster label, the per-spike ones one row per waveform of the sample.
C18_MetricsAreCurrent ==
    last.op \in MetricInputOps =>
        /\ \A name \in {"cluster_similarity", "cluster_ratio_similarity"} :
                IsSome(arrays[name]) => Val(arrays[name]) = Cardinality(PositiveLabels)
        /\ \A name \in {"spike_waveforms_similarity", "spike_silhouette"} :
                IsSome(arrays[name]) =>
                    /\ IsSome(arrays["some_waveforms"])
                    /\ Val(arrays[name]) = Len(Val(arrays["some_waveforms"]).rows)

---------------------------------------------------------------------------
(* C19 *)

\* keys of the centroid cache
CentroidKeys == IF IsSome(centroids) THEN DOMAIN Val(centroids) ELSE {}

\* C19: after compute_centroid has returned, for any list of labels and after
\* any sequence of relabelling operations, every key of the centroid cache is a
\* current non-negative cluster label; called without argument on a working
\* sample, it leaves exactly one entry per current non-negative cluster label.
C19_CacheFollowsLabels ==
    last.op = "compute_centroid" =>
        /\ CentroidKeys \subseteq PositiveLabels
        /\ (~ IsSome(last.args[1]) /\ IsSome(arrays["some_waveforms"])) =>
                CentroidKeys = PositiveLabels

---------------------------------------------------------------------------
(* C20 *)

\* C20, as stated: configure called when data already exists leaves the peak
\* table, the working sample, the features, the cluster table and the metrics
\* as they were.
C20_AsStated ==
    [][ (last'.op = "set_preprocessor_params" /\ IsSome(all_peaks)) =>
            /\ all_peaks' = all_peaks
            /\ arrays' = arrays
            /\ clusters' = clusters ]_vars

\* C20, amended: configure called when data already exists re-initialises the
\* peak table (no peak is left, the table waits for the next run) and the
\* processed-signal bookkeeping, and leaves the working sample, the features,
\* the projector, the cluster table, the centroids and the metrics as they
\* were.
C20_ConfigureDropsPeaksOnly ==
    [][ (last'.op = "set_preprocessor_params" /\ IsSome(all_peaks)) =>
            /\ all_peaks' = None
            /\ CanAppend(peaks_buf')
            /\ nb_peak(all_peaks') = 0
            /\ processed' = [ seg \in Segments |-> 0 ]
            /\ arrays' = arrays
            /\ projector' = projector
            /\ clusters' = clusters
            /\ centroids' = centroids ]_vars

\* configure has completed on a constructor that held peaks, a working
\* sample, features, a cluster table and metrics: all but the peaks are still
\* there
C20_Witness ==
    /\ last.op = "set_preprocessor_params"
    /\ IsSome(last.args[1])
    /\ Len(Val(last.args[1])) > 0
    /\ {"some_waveforms", "some_features", "cluster_similarity"} \subseteq last.args[2]
    /\ ~ IsSome(all_peaks)
    /\ IsSome(clusters)
    /\ \A name \in {"some_waveforms", "some_features", "cluster_similarity"} :
            IsSome(arrays[name])

---------------------------------------------------------------------------
(* C21 *)

\* C21: estimate_signals_noise(segment, duration) fails exactly when the
\* requested duration, in samples, exceeds the segment's length, and succeeds
\* when it does not (the segment length included); on failure the persisted
\* medians and spreads are unchanged.
C21_FailsIffTooLong ==
    [][ last'.op \in {"estimate_signals_noise", "estimate_signals_noise_failed"} =>
            /\ (last'.op = "estimate_signals_noise_failed")
                    <=> (last'.args[2] > SegmentLength(last'.args[1]))
            /\ (last'.op = "estimate_signals_noise_failed")
                    => signals_noise' = signals_noise ]_vars

---------------------------------------------------------------------------
(* C27 *)

\* the noise index records, once extract_some_noise has stored them
NoiseRecords ==
    IF IsSome(arrays["some_noise_index"]) THEN Val(arrays["some_noise_index"]) ELSE <<>>

\* width of the window recorded by extract_some_waveforms
WindowWidth ==
    Val(info.params_waveformextractor).n_right - Val(info.params_waveformextractor).n_left

\* C27: every noise index record produced by extract_some_noise lies inside
\* the processed range of its own segment, one window width away from each
\* end: window_width <= position < processed length of that segment -
\* window_width.
C27_NoiseInsideOwnSegment ==
    last.op = "extract_some_noise" =>
        \A i \in DOMAIN NoiseRecords :
            /\ NoiseRecords[i].index >= WindowWidth
            /\ NoiseRecords[i].index <
                    processed[NoiseRecords[i].segment] * ChunkSize - WindowWidth

---------------------------------------------------------------------------
(* C28 *)

\* C28: no noise snippet overlaps a detected peak waveform: the position of
\* every noise index record of a segment lies outside the band
\* [peak.index - window_width, peak.index + window_width) of every peak of
\* that segment.
C28_NoiseAwayFromPeaks ==
    last.op = "extract_some_noise" =>
        \A i \in DOMAIN NoiseRecords : \A j \in DOMAIN PeaksOf(all_peaks) :
            PeaksOf(all_peaks)[j].segment = NoiseRecords[i].segment =>
                \/ NoiseRecords[i].index < PeaksOf(all_peaks)[j].index - WindowWidth
                \/ NoiseRecords[i].index >= PeaksOf(all_peaks)[j].index + WindowWidth

---------------------------------------------------------------------------
(* C29 *)

\* C29: extract_some_noise draws without replacement and splits the draw
\* across segments: within a segment no two records have the same position,
\* each segment receives floor(snippet_count / segment_count) records, every
\* record carries the noise label and its own segment number, and the snippet
\* tensor has one row per record.
C29_NoiseDrawDistinct ==
    last.op = "extract_some_noise" =>
        /\ \A i, j \in DOMAIN NoiseRecords :
                (i # j /\ NoiseRecords[i].segment = NoiseRecords[j].segment) =>
                    NoiseRecords[i].index # NoiseRecords[j].index
        /\ \A seg \in Segments :
                Cardinality({ i \in DOMAIN NoiseRecords : NoiseRecords[i].segment = seg })
                    = last.args[1] \div NbSegment
        /\ \A i \in DOMAIN NoiseRecords : NoiseRecords[i].label = LABEL_NOISE
        /\ Len(Val(arrays["some_noise_snippet"]).rows) = Len(NoiseRecords)

---------------------------------------------------------------------------
(* C30 *)

\* the maximal runs of flagged offsets of a pattern, as <<first, last>>
\* offsets counted from 0
FlaggedRuns(above) ==
    { r \in (0 .. (Len(above) - 1)) \X (0 .. (Len(above) - 1)) :
        /\ r[1] <= r[2]
        /\ \A i \in r[1] .. r[2] : above[i + 1]
        /\ r[1] = 0 \/ ~ above[r[1]]
        /\ r[2] = Len(above) - 1 \/ ~ above[r[2] + 2] }

\* the longest of the maximal runs
LongestRuns(above) ==
    { r \in FlaggedRuns(above) :
        \A q \in FlaggedRuns(above) : q[2] - q[1] <= r[2] - r[1] }

\* C30: find_good_limits returns (None, None) if no contiguous run of flagged
\* offsets exists, and otherwise returns bounds derived from the longest run,
\* for every pattern of flagged offsets: the window returned covers a longest
\* run, runs at either end of the window and the all-flagged pattern included.
C30_LimitsFromLongestRun ==
    [][ last'.op \in {"find_good_limits", "find_good_limits_failed"} =>
            LET above == last'.args[1]
                old_n_left == Val(info.params_waveformextractor).n_left
            IN  /\ last'.op = "find_good_limits"
                /\ IF FlaggedRuns(above) = {}
                   THEN last'.args[2] = None
                   ELSE /\ IsSome(last'.args[2])
                        /\ \E r \in LongestRuns(above) :
                                /\ Val(last'.args[2])[1] <= old_n_left + r[1]
                                /\ Val(last'.args[2])[2] >= old_n_left + r[2] + 1 ]_vars

---------------------------------------------------------------------------
(* Catalogue builder *)

\* the entries of a complete catalogue
CatalogueSchema ==
    { "chan_grp", "n_left", "n_right", "peak_width", "cluster_labels",
      "centers0", "centers1", "centers2", "subsample_ratio", "interp_centers0",
      "label_to_index", "max_on_channel", "cluster_colors",
      "params_signalpreprocessor", "params_peakdetector",
      "signals_medians", "signals_mads" }

\* the oversampling of the interpolated templates
SUBSAMPLE_RATIO == 20

\* positive_cluster_labels: self.cluster_labels[self.cluster_labels>=0]
positive_cluster_labels(cl) == SelectSeq(cluster_labels(cl), LAMBDA k : k >= 0)

\* refresh_colors(reset=True): the labels that get a colour
refresh_colors(cl) ==
    Some(Range(positive_cluster_labels(cl)) \cup { TRASH_CODE, LABEL_UNCLASSIFIED, LABEL_NOISE })

\* the templates keep the whole window
TemplateWidth_Full(full_width) == full_width

\* the second dimension of the templates: the window without the two samples
\* of margin on each side
TemplateWidth(full_width) == full_width - 4

\* catalogue['label_to_index'] after the first n turns of the loop
LabelToIndex(labels, n) ==
    [ k \in { labels[i] : i \in 1 .. n } |->
        (CHOOSE i \in 1 .. n : labels[i] = k /\ \A j \in 1 .. n : labels[j] = k => j <= i) - 1 ]

\* whether the template of cluster k can be computed: the label lookup on the
\* working sample can be evaluated and selects at least one waveform
CanTemplate(peaks, some_index, rows, k) ==
    /\ CanMask(peaks, some_index, rows)
    /\ ClusterWaveforms(Val(peaks), some_index, rows, k) # <<>>

\* centers0 after the first n turns of the loop: the median of each cluster at
\* the peak sample, zero for the clusters not reached
Centers0(labels, n, peaks, some_index, rows) ==
    [ i \in DOMAIN labels |->
        IF i <= n THEN Median(ClusterWaveforms(Val(peaks), some_index, rows, labels[i]))
        ELSE Some(0) ]

\* make_catalogue as a function of the state it reads. Result: self.catalogue
\* (the entries filled when the call ended), self.colors, and whether the call
\* returned normally
MakeCatalogue(inf, cl, arr, peaks, cols, noise) ==
    LET labels == positive_cluster_labels(cl)
        C == Len(labels)
        cat1 == [ chan_grp |-> 0 ]
        Stop(cat) == [ catalogue |-> cat, colors |-> cols, ok |-> FALSE ]
    IN  IF ~ IsSome(inf.params_waveformextractor) THEN Stop(cat1)
        ELSE
        LET n_left == Val(inf.params_waveformextractor).n_left + 2
            n_right == Val(inf.params_waveformextractor).n_right - 2
            cat2 == cat1 @@ [ n_left |-> n_left, n_right |-> n_right,
                              peak_width |-> n_right - n_left,
                              cluster_labels |-> labels ]
        IN  IF ~ IsSome(arr["some_waveforms"]) THEN Stop(cat2)
            ELSE
            LET full_width == Val(arr["some_waveforms"]).width
                rows == Val(arr["some_waveforms"]).rows
                some_index == Val(arr["some_peaks_index"])
                width == TemplateWidth(full_width)
            IN  IF width < 0 THEN Stop(cat2)
                ELSE
                LET bad == { i \in 1 .. C : ~ CanTemplate(peaks, some_index, rows, labels[i]) }
                    reached == IF bad = {} THEN C ELSE MinOf(bad)
                    done == IF bad = {} THEN C ELSE MinOf(bad) - 1
                    cat3 == cat2 @@
                        [ centers0 |-> [ shape |-> << C, width >>,
                                         center |-> Centers0(labels, done, peaks, some_index, rows) ],
                          centers1 |-> [ shape |-> << C, width >> ],
                          centers2 |-> [ shape |-> << C, width >> ],
                          subsample_ratio |-> SUBSAMPLE_RATIO,
                          interp_centers0 |-> [ shape |-> << C, SUBSAMPLE_RATIO * (full_width - 4) >> ],
                          label_to_index |-> LabelToIndex(labels, reached) ]
                IN  IF bad # {} THEN Stop(cat3)
                    ELSE
                    LET cat4 == cat3 @@ [ max_on_channel |-> [ i \in 1 .. C |-> 0 ] ]
                    IN  IF C > 0 /\ ~ (- width <= - n_left /\ - n_left < width) THEN Stop(cat4)
                        ELSE
                        LET cols2 == IF IsSome(cols) THEN cols ELSE refresh_colors(cl)
                            cat5 == cat4 @@ [ cluster_colors |-> Val(cols2) ]
                        IN  IF ~ IsSome(inf.params_signalpreprocessor) \/ ~ IsSome(inf.params_peakdetector)
                            THEN [ catalogue |-> cat5, colors |-> cols2, ok |-> FALSE ]
                            ELSE [ catalogue |-> cat5 @@
                                      [ params_signalpreprocessor |-> Val(inf.params_signalpreprocessor),
                                        params_peakdetector |-> Val(inf.params_peakdetector),
                                        signals_medians |-> noise,
                                        signals_mads |-> noise ],
                                   colors |-> cols2, ok |-> TRUE ]

\* the row (0-based) that index i addresses in an array of n rows, as numpy
\* resolves it: a negative index counts from the end, None stands for IndexError
PyIndex(i, n) ==
    IF 0 <= i /\ i < n THEN Some(i)
    ELSE IF i < 0 /\ - n <= i THEN Some(n + i)
    ELSE None

\* the row of the median template compute_centroid reads the peak from:
\* median[-n_left, :] with n_left the recorded window_left
CentroidPeakRow(window_left, full_width) == PyIndex(- window_left, full_width)

\* the row of the median template make_catalogue reads the peak from:
\* center[-n_left, :] with n_left = window_left + 2 on center0[2:-2], given as
\* a row of the untrimmed template
CataloguePeakRow(window_left, full_width) ==
    LET r == PyIndex(- (window_left + 2), TemplateWidth(full_width))
    IN  IF TemplateWidth(full_width) >= 0 /\ IsSome(r) THEN Some(Val(r) + 2) ELSE None

\* make_catalogue()
make_catalogue ==
    /\ pc.op = "idle"
    /\ LET r == MakeCatalogue(info, clusters, arrays, all_peaks, colors, signals_noise)
       IN  /\ catalogue' = Some(r.catalogue)
           /\ colors' = r.colors
           /\ last' = [ op |-> IF r.ok THEN "make_catalogue" ELSE "make_catalogue_failed",
                        args |-> <<>>,
                        trace |-> IF r.ok /\ Len(r.catalogue.cluster_labels) > 0
                                  THEN << CataloguePeakRow(
                                            Val(info.params_waveformextractor).n_left,
                                            Val(arrays["some_waveforms"]).width) >>
                                  ELSE <<>> ]
    /\ UNCHANGED <<info, signals_noise, processed, peaks_buf, all_peaks, clusters,
                   arrays, projector, centroids, engines, pc>>

\* the windows of the working sample in a building session
BuildWindows == { <<-3, 2>>, <<-2, 3>> }

\* the modes asked of extract_some_waveforms in a building session
BuildModes == { "all", "median" }

\* the keys asked of order_clusters in a building session
BuildKeys == { "waveforms_rms", "nb_peak" }

\* one recording session up to the catalogue: detection, a working sample of
\* all the peaks, clustering, ordering, and make_catalogue at any point
NextBuild ==
    \/ ~ IsSome(info.chunksize) /\ set_preprocessor_params(0, 2)
    \/ ~ IsSome(signals_noise) /\ estimate_signals_noise(0, ChunkSize)
    \/ CanAppend(peaks_buf) /\ run_signalprocessor(2 * ChunkSize, TRUE)
    \/ signalprocessor_one_chunk
    \/ finalize_signalprocessor_loop
    \/ \E w \in BuildWindows, mode \in BuildModes :
         \E raw \in { <<>>, [ i \in 1 .. nb_peak(all_peaks) |-> i - 1 ] } :
            extract_some_waveforms(Some(w), None, mode, MaxPeaks, FALSE, raw)
    \/ \E a \in UNION { [ 1 .. n -> 0 .. MaxLabel ] : n \in 1 .. MaxPeaks } : find_clusters(a)
    \/ \E by \in BuildKeys,
          order \in {<<>>} \cup UNION { Bijections(n) : n \in 1 .. (MaxLabel + 1) } :
            order_clusters(by, order)
    \/ make_catalogue

SpecBuild == Init /\ [][NextBuild]_vars

\* the windows of the working sample in a session that compares the peak rows
OffsetWindows == { <<-1, 4>>, <<-2, 3>>, <<-3, 3>> }

\* one recording session in which the working sample is taken with any of
\* the windows, the peaks are clustered, the centroids computed and the
\* catalogue built
NextOffset ==
    \/ ~ IsSome(info.chunksize) /\ set_preprocessor_params(0, 2)
    \/ ~ IsSome(signals_noise) /\ estimate_signals_noise(0, ChunkSize)
    \/ CanAppend(peaks_buf) /\ run_signalprocessor(2 * ChunkSize, TRUE)
    \/ signalprocessor_one_chunk
    \/ finalize_signalprocessor_loop
    \/ \E w \in OffsetWindows :
         \E raw \in { [ i \in 1 .. nb_peak(all_peaks) |-> i - 1 ] } :
            extract_some_waveforms(Some(w), None, "all", MaxPeaks, FALSE, raw)
    \/ \E a \in UNION { [ 1 .. n -> 0 .. MaxLabel ] : n \in 1 .. MaxPeaks } : find_clusters(a)
    \/ compute_centroid(None)
    \/ make_catalogue

SpecOffset == Init /\ [][NextOffset]_vars

---------------------------------------------------------------------------
(* C22 *)

\* everything the pipeline holds, in memory or persisted, but the record of
\* the last call
PipelineState ==
    <<info, signals_noise, processed, peaks_buf, all_peaks, clusters, arrays,
      projector, centroids, engines, catalogue, colors>>

\* C22: a call that violates a stage precondition (run before the noise was
\* estimated, extract before any peak table exists, build without a working
\* sample) aborts and leaves the whole pipeline state, persisted and in
\* memory, as it was
C22_PreconditionAbortChangesNothing ==
    [][ ( \/ /\ pc.op = "idle"
             /\ ~ IsSome(signals_noise)
             /\ last'.op = "run_signalprocessor_failed"
          \/ /\ ~ IsSome(all_peaks)
             /\ last'.op = "extract_some_waveforms_failed"
             /\ last'.args = <<>>
          \/ /\ ~ IsSome(arrays["some_waveforms"])
             /\ last'.op = "make_catalogue_failed" )
        => UNCHANGED PipelineState ]_vars

---------------------------------------------------------------------------
(* C23 *)

\* the call that just ended was refused for an unsupported option
UnsupportedOptionRefused ==
    /\ last'.op \in { "extract_some_waveforms_failed", "order_clusters_failed" }
    /\ Len(last'.args) = 2

\* C23: a call refused for an unsupported option (extract with an unknown
\* mode, order_clusters with an unknown key) raises an error that names the
\* offending value, and leaves the pipeline state as it was
C23_UnsupportedOptionNamedAndInert ==
    [][ UnsupportedOptionRefused
        => /\ last'.args[1] \in last'.args[2].names
           /\ UNCHANGED PipelineState ]_vars

---------------------------------------------------------------------------
(* C24 *)

\* the number of current non-negative cluster labels
NbPositiveLabels ==
    Cardinality({ i \in DOMAIN cluster_labels(clusters) : cluster_labels(clusters)[i] >= 0 })

\* C24: the catalogue a build returns is internally consistent: with C the
\* number of current non-negative cluster labels and W the width of the
\* working window, cluster_labels, the three template tensors, the
\* oversampled interpolant and max_on_channel have first dimension C, the
\* templates have second dimension W - 4, label_to_index is a bijection from
\* cluster_labels onto 0 .. C-1 in row order, and n_left, n_right, peak_width
\* are window_left + 2, window_right - 2 and W - 4
C24_CatalogueConsistent ==
    last.op = "make_catalogue" =>
        LET cat == Val(catalogue)
            C == NbPositiveLabels
            W == Val(arrays["some_waveforms"]).width
            window == Val(info.params_waveformextractor)
        IN  /\ Len(cat.cluster_labels) = C
            /\ cat.centers0.shape = << C, W - 4 >>
            /\ cat.centers1.shape = << C, W - 4 >>
            /\ cat.centers2.shape = << C, W - 4 >>
            /\ Len(cat.centers0.center) = C
            /\ cat.interp_centers0.shape[1] = C
            /\ Len(cat.max_on_channel) = C
            /\ DOMAIN cat.label_to_index = Range(cat.cluster_labels)
            /\ { cat.label_to_index[k] : k \in DOMAIN cat.label_to_index } = 0 .. (C - 1)
            /\ \A i \in 1 .. C : cat.label_to_index[cat.cluster_labels[i]] = i - 1
            /\ cat.n_left = window.n_left + 2
            /\ cat.n_right = window.n_right - 2
            /\ cat.peak_width = W - 4

\* a build returned a catalogue of two clusters
C24_Witness ==
    /\ last.op = "make_catalogue"
    /\ NbPositiveLabels = 2
    /\ Len(Val(catalogue).cluster_labels) = 2
    /\ Val(catalogue).centers0.shape = << 2, 1 >>

---------------------------------------------------------------------------
(* C25 *)

\* C25: the catalogue a build returns carries a colour for every cluster
\* label of its cluster_labels, whatever re-clustering and earlier builds
\* preceded the call
C25_EveryClusterHasColor ==
    last.op = "make_catalogue" =>
        Range(Val(catalogue).cluster_labels) \subseteq Val(catalogue).cluster_colors

---------------------------------------------------------------------------
(* C26 *)

\* C26: the catalogue the constructor holds is never half-filled: after any
\* build, returned or aborted, it is absent or it has every entry of the schema
C26_CatalogueNeverPartial ==
    IsSome(catalogue) => DOMAIN Val(catalogue) = CatalogueSchema

---------------------------------------------------------------------------
(* C31 *)

\* find_good_limits just returned bounds
LimitsReturned ==
    /\ last'.op = "find_good_limits"
    /\ IsSome(last'.args[2])

---------------------------------------------------------------------------
(* C32 *)

\* C32: tag_same_cell(labels) gives the smallest label of the set as
\* cell_label to every cluster whose cluster_label is in the set, and changes
\* nothing else: the other cell labels, every cluster_label, nb_peak and
\* metric of the table, the peak table and the rest of the state are as before
C32_TagSameCellFrame ==
    [][ last'.op = "tag_same_cell" =>
            LET g == last'.args[1]
                old == RowsOf(clusters)
                new == RowsOf(clusters')
            IN  /\ DOMAIN new = DOMAIN old
                /\ \A i \in DOMAIN old :
                        /\ new[i] = [ old[i] EXCEPT !.cell_label = new[i].cell_label ]
                        /\ new[i].cell_label =
                                IF old[i].cluster_label \in g
                                THEN (CHOOSE m \in g : \A y \in g : m <= y)
                                ELSE old[i].cell_label
                /\ UNCHANGED <<info, signals_noise, processed, peaks_buf, all_peaks,
                               arrays, projector, centroids, engines, catalogue, colors>> ]_vars

\* tag_same_cell grouped two clusters, leaving a third cluster row alone
C32_Witness ==
    /\ last.op = "tag_same_cell"
    /\ Cardinality(last.args[1]) = 2
    /\ \E i, j \in DOMAIN RowsOf(clusters) :
            /\ RowsOf(clusters)[i].cluster_label # RowsOf(clusters)[j].cluster_label
            /\ { RowsOf(clusters)[i].cluster_label, RowsOf(clusters)[j].cluster_label } = last.args[1]
            /\ RowsOf(clusters)[i].cell_label = RowsOf(clusters)[j].cell_label
            /\ RowsOf(clusters)[i].nb_peak > 0
    /\ \E h \in DOMAIN RowsOf(clusters) : RowsOf(clusters)[h].cluster_label \notin last.args[1]

---------------------------------------------------------------------------
(* C33 *)

\* the positions of the streaming loops of run and re_detect_peak
StreamOps == { "run", "re_detect_peak" }

\* the step starts the streaming of a segment
SegmentStarts ==
    /\ pc'.op \in StreamOps
    /\ pc.op # pc'.op \/ pc'.seg # pc.seg

\* the step moves to another chunk of the segment being streamed
ChunkMoves ==
    /\ pc.op \in StreamOps
    /\ pc'.op = pc.op
    /\ pc'.seg = pc.seg
    /\ pc'.chunk # pc.chunk

\* the step appends peaks to the peak array
PeaksAppended ==
    /\ pc.op \in StreamOps
    /\ IsSome(peaks_buf)
    /\ IsSome(peaks_buf')
    /\ peaks_buf' # peaks_buf

\* C33: in run and in re_detect_peak the chunks of a segment are handed to
\* the engines in increasing position order, every engine used is in its
\* reset state when the first chunk of a segment is processed, and the peaks
\* appended while segment s is streamed carry segment number s
C33_StreamingOrder ==
    [][ /\ SegmentStarts =>
            /\ pc'.chunk = 0
            /\ engines'.peakdetector = 0
            /\ pc'.op = "run" => engines'.signalpreprocessor = 0
        /\ ChunkMoves => pc'.chunk = pc.chunk + 1
        /\ pc.op \in StreamOps /\ pc'.op \in StreamOps /\ pc'.seg # pc.seg
              => pc'.op = pc.op /\ pc'.seg = pc.seg + 1
        /\ PeaksAppended =>
            /\ Len(Val(peaks_buf')) > Len(Val(peaks_buf))
            /\ SubSeq(Val(peaks_buf'), 1, Len(Val(peaks_buf))) = Val(peaks_buf)
            /\ \A i \in (Len(Val(peaks_buf)) + 1) .. Len(Val(peaks_buf')) :
                    Val(peaks_buf')[i].segment = pc.seg ]_vars

\* run starts its second segment with both engines reset, after it appended
\* a peak of the first segment
C33_Witness ==
    /\ pc.op = "run"
    /\ pc.seg = 1
    /\ pc.chunk = 0
    /\ engines = [ signalpreprocessor |-> 0, peakdetector |-> 0 ]
    /\ IsSome(peaks_buf)
    /\ \E i \in DOMAIN Val(peaks_buf) : Val(peaks_buf)[i].segment = 0

---------------------------------------------------------------------------
(* Persistence of the configuration record *)

\* a JSON number
JsonNumber(n) == [ type |-> "number", value |-> n ]

\* a JSON boolean
JsonBool(b) == [ type |-> IF b THEN "true" ELSE "false" ]

\* json.dump(self.info): an object with one member per key the record holds
\* (the parameter dicts of the two engines are held as one number each)
json_dump(inf) ==
    [ k \in { key \in DOMAIN inf : IsSome(inf[key]) } |->
        IF k = "params_waveformextractor"
        THEN [ type |-> "object",
               members |-> [ n_left |-> JsonNumber(Val(inf[k]).n_left),
                             n_right |-> JsonNumber(Val(inf[k]).n_right),
                             nb_max |-> JsonNumber(Val(inf[k]).nb_max),
                             align_waveform |-> JsonBool(Val(inf[k]).align_waveform) ] ]
        ELSE JsonNumber(Val(inf[k])) ]

\* json.load that loses the window extraction params
json_load_NoWindow(doc, keys) ==
    [ k \in keys |->
        IF k \in DOMAIN doc /\ doc[k].type = "number" THEN Some(doc[k].value) ELSE None ]

\* json.load of the document: the record over the keys `keys`, a key the
\* document lacks being absent
json_load(doc, keys) ==
    [ k \in keys |->
        IF k \notin DOMAIN doc THEN None
        ELSE IF doc[k].type = "object"
        THEN Some([ m \in DOMAIN doc[k].members |->
                        IF doc[k].members[m].type = "number" THEN doc[k].members[m].value
                        ELSE doc[k].members[m].type = "true" ])
        ELSE Some(doc[k].value) ]

\* the state of an engine that was not constructed
NoEngine == -1

\* a new CatalogueConstructor on the directory of this one: info.json is read
\* back, the persisted arrays are loaded, and nothing else is set
reopen ==
    /\ pc.op = "idle"
    /\ info' = json_load(json_dump(info), DOMAIN info)
    /\ peaks_buf' = None
    /\ projector' = None
    /\ centroids' = None
    /\ engines' = [ signalpreprocessor |-> NoEngine, peakdetector |-> NoEngine ]
    /\ catalogue' = None
    /\ colors' = None
    /\ pc' = Idle
    /\ last' = Did("reopen")
    /\ UNCHANGED <<signals_noise, processed, all_peaks, clusters, arrays>>

\* the bounds given to extract_some_waveforms in a session with a reopening:
\* none, or either of two windows
ReopenBounds == { None, Some(<<-2, 1>>), Some(<<-1, 1>>) }

\* one recording session in memmap mode that is closed and opened again at
\* any point after detection: the working sample is cut with explicit bounds
\* or with the recorded ones, and the peaks are detected again
NextReopen ==
    \/ ~ IsSome(info.chunksize) /\ set_preprocessor_params(0, 2)
    \/ ~ IsSome(signals_noise) /\ estimate_signals_noise(0, ChunkSize)
    \/ CanAppend(peaks_buf) /\ run_signalprocessor(2 * ChunkSize, TRUE)
    \/ signalprocessor_one_chunk
    \/ finalize_signalprocessor_loop
    \/ \E thr \in Thresholds : re_detect_peak(thr)
    \/ re_detect_peak_one_chunk
    \/ re_detect_peak_finalize
    \/ \E bounds \in ReopenBounds, align_waveform \in BOOLEAN :
         \E raw \in { [ i \in 1 .. nb_peak(all_peaks) |-> i - 1 ] } :
            extract_some_waveforms(bounds, None, "all", MaxPeaks, align_waveform, raw)
    \/ IsSome(all_peaks) /\ reopen

SpecReopen == Init /\ [][NextReopen]_vars

---------------------------------------------------------------------------
(* C34 *)

---------------------------------------------------------------------------
(* C35 *)

\* the durations asked of run_signalprocessor in a session with interruptions
RowsDurations == { ChunkSize, 3 * ChunkSize }

\* one recording session in which run_signalprocessor, of either duration,
\* may be interrupted and called again, peaks may be detected again, and a
\* working sample of all the peaks is cut
NextRows ==
    \/ ~ IsSome(info.chunksize) /\ set_preprocessor_params(0, 4)
    \/ ~ IsSome(signals_noise) /\ estimate_signals_noise(0, ChunkSize)
    \/ \E duration \in RowsDurations : run_signalprocessor(duration, TRUE)
    \/ signalprocessor_one_chunk
    \/ finalize_signalprocessor_loop
    \/ pc.op = "run" /\ Interrupt
    \/ \E thr \in Thresholds : re_detect_peak(thr)
    \/ re_detect_peak_one_chunk
    \/ re_detect_peak_finalize
    \/ \E raw \in { [ i \in 1 .. nb_peak(all_peaks) |-> i - 1 ] } :
            extract_some_waveforms(Some(<<-2, 1>>), None, "all", MaxPeaks, FALSE, raw)

SpecRows == Init /\ [][NextRows]_vars

\* the peak table is ordered by non-decreasing segment number
SegmentsOrdered(peak_seq) ==
    \A i, j \in DOMAIN peak_seq : i < j => peak_seq[i].segment <= peak_seq[j].segment

\* row i of the waveforms is the window read around the peak that the i-th
\* entry of the index selection designates
RowsFollowIndex(arr, peak_seq) ==
    LET index == Val(arr["some_peaks_index"])
        rows == Val(arr["some_waveforms"]).rows
    IN  /\ Len(rows) = Len(index)
        /\ \A i \in DOMAIN index :
                /\ rows[i].segment = peak_seq[index[i] + 1].segment
                /\ rows[i].index = peak_seq[index[i] + 1].index

\* C35: after run or re_detect_peak the peak table is ordered by
\* non-decreasing segment number, and after every extract row i of the
\* waveforms is the window of the peak designated by the i-th entry of the
\* index selection, on a recording of several segments
C35_RowsFollowIndex ==
    /\ last.op \in { "run_signalprocessor", "re_detect_peak" } => SegmentsOrdered(PeaksOf(all_peaks))
    /\ last.op = "extract_some_waveforms" => RowsFollowIndex(arrays, PeaksOf(all_peaks))

---------------------------------------------------------------------------
(* C36 *)

\* cell_label of the row of table cl that carries cluster label k
CellOfLabel(cl, k) ==
    LET rows == RowsOf(cl)
    IN  rows[CHOOSE i \in DOMAIN rows : rows[i].cluster_label = k].cell_label

\* C36: order_clusters never merges identities: two non-negative clusters
\* (each followed through the call by one of its peaks) whose cell_label values
\* differed before the call have different cell_label values after it.
C36_OrderKeepsIdentitiesApart ==
    [][ last'.op = "order_clusters" =>
          LET before == Labels(PeaksOf(all_peaks))
              after == Labels(PeaksOf(all_peaks'))
          IN  \A p, q \in DOMAIN before :
                  /\ before[p] >= 0
                  /\ before[q] >= 0
                  /\ CellOfLabel(clusters, before[p]) # CellOfLabel(clusters, before[q])
                  => CellOfLabel(clusters', after[p]) # CellOfLabel(clusters', after[q]) ]_vars

---------------------------------------------------------------------------
(* C37 *)

\* the centroid entry of label k is the one compute_centroid would compute
\* from the waveforms of the peaks that carry label k now
CentroidIsCurrent(k) ==
    /\ IsSome(all_peaks)
    /\ IsSome(arrays["some_waveforms"])
    /\ IsSome(arrays["some_peaks_index"])
    /\ CanMask(all_peaks, Val(arrays["some_peaks_index"]), Val(arrays["some_waveforms"]).rows)
    /\ Val(centroids)[k] = Median(ClusterWaveforms(Val(all_peaks),
                                                   Val(arrays["some_peaks_index"]),
                                                   Val(arrays["some_waveforms"]).rows, k))

\* C37: centroids stay keyed by the cluster they summarize: after
\* order_clusters, find_clusters or trash_small_cluster, every non-negative
\* cluster label that has a centroid entry has the entry computed from the
\* waveforms of the peaks that currently carry that label.
C37_CentroidsFollowClusters ==
    last.op \in {"order_clusters", "find_clusters", "trash_small_cluster"} =>
        \A k \in CentroidKeys \cap PositiveLabels : CentroidIsCurrent(k)

---------------------------------------------------------------------------
(* C38 *)

\* C38: the canonical peak offset is the same sample before and after
\* trimming: whenever make_catalogue has picked max_on_channel for at least one
\* cluster, the row of the median template it read (offset -(window_left+2) of
\* the trimmed order-0 template) is the row compute_centroid reads (offset
\* -window_left of the untrimmed median), for every window and width.
C38_SamePeakSample ==
    (last.op = "make_catalogue" /\ Len(last.trace) > 0) =>
        last.trace[1] = CentroidPeakRow(Val(info.params_waveformextractor).n_left,
                                        Val(arrays["some_waveforms"]).width)

---------------------------------------------------------------------------
(* The catalogue window: parameter dialogs in front of the constructor *)

\* what QDialog.exec_() returns: 0 when the dialog is rejected (closed), 1
\* when it is accepted (OK)
DialogResults == { 0, 1 }

\* the test of "if dia.exec_():", were every result taken for an acceptance
DialogAccepted_Always(result) == TRUE

\* the test of "if dia.exec_():" / "if not dialog.exec_():" on the result
DialogAccepted(result) == result # 0

\* the tables of parameter descriptions by method a window passes to
\* open_dialog_methods: a method with one parameter and a method with none
MethodTables == { [ kmeans |-> << "n_clusters" >>, peak_max |-> << >> ] }

\* the values a parameter of the second dialog may hold
ParamValues == { 2, 3 }

\* the result when either dialog is rejected
NoMethod == [ method |-> None, kargs |-> None ]

\* open_dialog_methods(params_by_method, parent): result1 and method are the
\* outcome of the method dialog, result2 and values (the dict of dialog2.get())
\* the outcome of the parameter dialog, which opens only when the method has
\* parameters
open_dialog_methods(params_by_method, result1, method, result2, values) ==
    IF ~ DialogAccepted(result1) THEN NoMethod
    ELSE LET _params == params_by_method[method]
         IN  IF Len(_params) > 0
             THEN IF ~ DialogAccepted(result2) THEN NoMethod
                  ELSE [ method |-> Some(method), kargs |-> Some(values) ]
             ELSE [ method |-> Some(method), kargs |-> Some([ p \in {} |-> 0 ]) ]

\* a handler of the window that returns without calling the constructor: the
\* views are refreshed (they read the constructor), returned is what the
\* dialogs gave the handler
Refused(handler, returned) ==
    /\ pc.op = "idle"
    /\ last' = [ op |-> handler, args |-> returned, trace |-> <<>> ]
    /\ UNCHANGED <<info, signals_noise, processed, peaks_buf, all_peaks, clusters,
                   arrays, projector, centroids, engines, pc, catalogue, colors>>

\* CatalogueWindow.redetect_peak
redetect_peak(result, relative_threshold) ==
    IF DialogAccepted(result) THEN re_detect_peak(relative_threshold)
    ELSE Refused("redetect_peak", << >>)

\* CatalogueWindow.new_waveforms
new_waveforms(result, bounds, raw) ==
    IF DialogAccepted(result)
    THEN extract_some_waveforms(Some(bounds), None, "all", MaxPeaks, FALSE, raw)
    ELSE Refused("new_waveforms", << >>)

\* CatalogueWindow.new_noise_snippet
new_noise_snippet(result, nb_snippet, draws) ==
    IF DialogAccepted(result) THEN extract_some_noise(nb_snippet, draws)
    ELSE Refused("new_noise_snippet", << >>)

\* CatalogueWindow.new_features
new_features(params_by_method, result1, method, result2, values) ==
    LET r == open_dialog_methods(params_by_method, result1, method, result2, values)
    IN  IF IsSome(r.method) THEN extract_some_features
        ELSE Refused("new_features", << r >>)

\* CatalogueWindow.new_cluster; assignment is what the clustering returns
new_cluster(params_by_method, result1, method, result2, values, assignment) ==
    LET r == open_dialog_methods(params_by_method, result1, method, result2, values)
    IN  IF IsSome(r.method) THEN find_clusters(assignment)
        ELSE Refused("new_cluster", << r >>)

\* CatalogueWindow.compute_metrics, from the opening of its dialog
compute_metrics_dialog(result) ==
    IF DialogAccepted(result) THEN compute_metrics
    ELSE Refused("compute_metrics", << >>)

\* the dict the parameter dialog of a method returns
DialogValues(params_by_method, method) ==
    [ { params_by_method[method][i] : i \in DOMAIN params_by_method[method] } -> ParamValues ]

\* one session at the catalogue window: the constructor is configured and the
\* detection run, then the user opens the dialogs in any order and closes
\* each one with OK or without
NextWindow ==
    \/ ~ IsSome(info.chunksize) /\ set_preprocessor_params(0, 2)
    \/ ~ IsSome(signals_noise) /\ estimate_signals_noise(0, ChunkSize)
    \/ CanAppend(peaks_buf) /\ run_signalprocessor(2 * ChunkSize, TRUE)
    \/ signalprocessor_one_chunk
    \/ finalize_signalprocessor_loop
    \/ \E result \in DialogResults : redetect_peak(result, 4)
    \/ re_detect_peak_one_chunk
    \/ re_detect_peak_finalize
    \/ \E result \in DialogResults :
         \E raw \in { [ i \in 1 .. nb_peak(all_peaks) |-> i - 1 ] } :
            new_waveforms(result, <<-2, 1>>, raw)
    \/ \E result \in DialogResults :
         \E draws \in { [ seg \in 1 .. NbSegment |-> <<3>> ] } :
            new_noise_snippet(result, NbSegment, draws)
    \/ \E t \in MethodTables, result1, result2 \in DialogResults :
         \E method \in DOMAIN t : \E values \in DialogValues(t, method) :
            new_features(t, result1, method, result2, values)
    \/ \E t \in MethodTables, result1, result2 \in DialogResults :
         \E method \in DOMAIN t : \E values \in DialogValues(t, method) :
         \E a \in { [ i \in 1 .. nb_peak(all_peaks) |-> i % (MaxLabel + 1) ] } :
            new_cluster(t, result1, method, result2, values, a)
    \/ \E result \in DialogResults : compute_metrics_dialog(result)

SpecWindow == Init /\ [][NextWindow]_vars

---------------------------------------------------------------------------
(* C39 *)

\* the dialog outcomes in which a dialog of open_dialog_methods is rejected:
\* the method dialog, or the parameter dialog when the method has parameters
MethodDialogRejected(t, result1, method, result2) ==
    result1 = 0 \/ (Len(t[method]) > 0 /\ result2 = 0)

\* C39: in the catalogue window, cancelling a parameter dialog never changes
\* the constructor: a step of redetect_peak, new_waveforms, new_noise_snippet,
\* new_features, new_cluster or compute_metrics whose dialog was rejected
\* leaves the whole pipeline state as it was; open_dialog_methods returns
\* (None, None) when either of its dialogs is rejected, and the chosen method
\* with an empty parameter dict when the method has no parameters.
C39_CancelChangesNothing ==
    [][ /\ \/ redetect_peak(0, 4)
           \/ \E raw \in { [ i \in 1 .. nb_peak(all_peaks) |-> i - 1 ] } :
                new_waveforms(0, <<-2, 1>>, raw)
           \/ \E draws \in { [ seg \in 1 .. NbSegment |-> <<3>> ] } :
                new_noise_snippet(0, NbSegment, draws)
           \/ compute_metrics_dialog(0)
           \/ \E t \in MethodTables, result1, result2 \in DialogResults :
              \E method \in DOMAIN t : \E values \in DialogValues(t, method) :
                /\ MethodDialogRejected(t, result1, method, result2)
                /\ \/ new_features(t, result1, method, result2, values)
                   \/ \E a \in { [ i \in 1 .. nb_peak(all_peaks) |-> i % (MaxLabel + 1) ] } :
                        new_cluster(t, result1, method, result2, values, a)
           => PipelineState' = PipelineState
        /\ \A t \in MethodTables, result1, result2 \in DialogResults :
           \A method \in DOMAIN t : \A values \in DialogValues(t, method) :
              LET r == open_dialog_methods(t, result1, method, result2, values)
              IN  /\ MethodDialogRejected(t, result1, method, result2) => r = NoMethod
                  /\ (result1 # 0 /\ Len(t[method]) = 0) =>
                        /\ r.method = Some(method)
                        /\ IsSome(r.kargs)
                        /\ DOMAIN Val(r.kargs) = {}
      ]_vars

\* the feature dialog was cancelled on a constructor that holds peaks and a
\* working sample: the handler got (None, None) and the sample has no features
C39_Witness ==
    /\ last.op = "new_features"
    /\ last.args = << NoMethod >>
    /\ IsSome(all_peaks)
    /\ IsSome(arrays["some_waveforms"])
    /\ ~ IsSome(arrays["some_features"])

===========================================================================
